---- MODULE Spec2Model ----
(***************************************************************************)
(* Optimization decision engine and monitoring loop of the                 *)
(* ai-marketing-specialist worker: CampaignMonitor (campaign-monitor.js),  *)
(* AIEngine (engine.js), the Meta and Google adapters and the D1 tables    *)
(* they write (campaigns, performance_metrics, ai_decisions, alerts).      *)
(*                                                                         *)
(* Every `await` of the JavaScript is a step of the model; the code that   *)
(* runs synchronously between two awaits belongs to the step that follows  *)
(* the first await.  An external call (D1, fetch) either returns or        *)
(* throws; which one is the environment's choice.                          *)
(***************************************************************************)
EXTENDS Integers, Sequences, FiniteSets, TLC

(***************************************************************************)
(* Bounds of the model.                                                    *)
(***************************************************************************)
\* operations started in one behaviour (passes, campaign creations, direct
\* engine calls)
MaxOps == 2
\* external calls that throw in one behaviour
MaxFaults == 1
\* calendar days the clock runs through
MaxDay == 2

(***************************************************************************)
(* JavaScript numbers.  A number is an exact fraction n/d in lowest terms  *)
(* with d > 0; d = 0 stands for NaN, which is also what `undefined`        *)
(* becomes in every arithmetic or relational use.                          *)
(***************************************************************************)
RECURSIVE GCD(_, _)
GCD(a, b) == IF b = 0 THEN a ELSE GCD(b, a % b)

NaN == [n |-> 0, d |-> 0]

Rat(n, d) ==
    IF d = 0 THEN NaN
    ELSE LET g == GCD(IF n < 0 THEN -n ELSE n, d)
         IN  [n |-> n \div g, d |-> d \div g]

Num(k) == [n |-> k, d |-> 1]

IsNaN(x) == x.d = 0

\* x > y, x < y of JavaScript: false as soon as one side is NaN/undefined
Inverted(x, y) == ~IsNaN(x) /\ ~IsNaN(y) /\ x.n * y.d < y.n * x.d
GE(x, y) == ~IsNaN(x) /\ ~IsNaN(y) /\ x.n * y.d >= y.n * x.d
GT(x, y) == ~IsNaN(x) /\ ~IsNaN(y) /\ x.n * y.d > y.n * x.d
LT(x, y) == ~IsNaN(x) /\ ~IsNaN(y) /\ x.n * y.d < y.n * x.d

Mul(x, y) == IF IsNaN(x) \/ IsNaN(y) THEN NaN ELSE Rat(x.n * y.n, x.d * y.d)
\* x / y for the guarded divisions of calculateMetrics (y > 0 there)
Div(x, y) == IF IsNaN(x) \/ IsNaN(y) \/ y.n = 0 THEN NaN ELSE Rat(x.n * y.d, x.d * y.n)

\* `x || 0`: undefined, NaN and 0 are falsy
OrZero(x) == IF IsNaN(x) THEN Num(0) ELSE x

\* parseInt(s) of a numeric string, NaN for a missing or unparseable one
parseInt(x) == IF IsNaN(x) THEN NaN ELSE Num(x.n \div x.d)
\* parseFloat(s)
parseFloat(x) == x

\* x.toFixed(2), as a number of hundredths (round half up)
toFixed2(x) == (200 * x.n + x.d) \div (2 * x.d)

\* obj.field of JavaScript: undefined when the object has no such property
Field(obj, f) == IF f \in DOMAIN obj THEN obj[f] ELSE NaN

(***************************************************************************)
(* Policy constants of the rules.                                          *)
(***************************************************************************)
CplTarget == 50
RoasTarget == 2
MinConversions == 10
CtrFloor == 1
MinImpressions == 1000
NoonHour == 12
BidAdjustment == -10
BudgetAdjustment == -20
\* 0.8 and 0.9 as fractions
PacingShare == Rat(8, 10)
BudgetAlertShare_asPacing == Rat(8, 10)
BudgetAlertShare == Rat(9, 10)

(***************************************************************************)
(* calculateMetrics: the six derived KPIs, and nothing else.               *)
(***************************************************************************)
calculateMetrics_unguarded(data) ==
    [ ctr  |-> Mul(Div(data.clicks, data.impressions), Num(100)),
      cpc  |-> Div(data.spend, data.clicks),
      cpl  |-> Div(data.spend, data.conversions),
      cpa  |-> Div(data.spend, data.conversions),
      roas |-> Div(data.revenue, data.spend),
      conversionRate |-> Mul(Div(data.conversions, data.clicks), Num(100)) ]
calculateMetrics(data) ==
    LET impressions == data.impressions
        clicks      == data.clicks
        spend       == data.spend
        conversions == data.conversions
        revenue     == data.revenue
    IN  [ ctr  |-> IF GT(impressions, Num(0))
                   THEN Mul(Div(clicks, impressions), Num(100)) ELSE Num(0),
          cpc  |-> IF GT(clicks, Num(0)) THEN Div(spend, clicks) ELSE Num(0),
          cpl  |-> IF GT(conversions, Num(0)) THEN Div(spend, conversions) ELSE Num(0),
          cpa  |-> IF GT(conversions, Num(0)) THEN Div(spend, conversions) ELSE Num(0),
          roas |-> IF GT(spend, Num(0)) THEN Div(revenue, spend) ELSE Num(0),
          conversionRate |-> IF GT(clicks, Num(0))
                             THEN Mul(Div(conversions, clicks), Num(100)) ELSE Num(0) ]

\* the argument monitorCampaign builds for calculateMetrics from the
\* platform's answer
RawCounters(platformMetrics) ==
    [ impressions |-> OrZero(parseInt(Field(platformMetrics, "impressions"))),
      clicks      |-> OrZero(parseInt(Field(platformMetrics, "clicks"))),
      spend       |-> OrZero(parseFloat(Field(platformMetrics, "spend"))),
      conversions |-> OrZero(parseFloat(Field(platformMetrics, "conversions"))),
      revenue     |-> Num(0) ]

(***************************************************************************)
(* The decision rules of makeOptimizationDecision, in their order.  A      *)
(* decision is [type, action, reason, adjustment]; reason carries the      *)
(* interpolated KPI (toFixed(2)), 0 when the text interpolates nothing.    *)
(***************************************************************************)
Decision(t, a, r, adj) == [type |-> t, action |-> a, reason |-> r, adjustment |-> adj]

EvaluateRules(metrics, hour) ==
    (IF GT(Field(metrics, "cpl"), Num(CplTarget))
     THEN << Decision("bid_adjustment", "decrease_bid",
                      <<"cpl_above_target", toFixed2(metrics.cpl)>>, BidAdjustment) >>
     ELSE << >>)
    \o
    (IF LT(Field(metrics, "roas"), Num(RoasTarget))
        /\ GT(Field(metrics, "conversions"), Num(MinConversions))
     THEN << Decision("budget_reallocation", "reduce_budget",
                      <<"roas_below_target", toFixed2(metrics.roas)>>, BudgetAdjustment) >>
     ELSE << >>)
    \o
    (IF LT(Field(metrics, "ctr"), Num(CtrFloor))
        /\ GT(Field(metrics, "impressions"), Num(MinImpressions))
     THEN << Decision("creative_refresh", "suggest_new_creatives",
                      <<"ctr_too_low", toFixed2(metrics.ctr)>>, 0) >>
     ELSE << >>)
    \o
    (IF GT(Field(metrics, "spend"), Mul(Field(metrics, "dailyBudget"), PacingShare))
        /\ hour < NoonHour
     THEN << Decision("pacing_adjustment", "slow_down_delivery",
                      <<"spending_too_fast", 0>>, 0) >>
     ELSE << >>)

(***************************************************************************)
(* The alert rules of checkAndCreateAlerts, in their order.                *)
(***************************************************************************)
Alert_alwaysWarning(t, s, m) == [type |-> t, severity |-> "warning", message |-> m]
Alert(t, s, m) == [type |-> t, severity |-> s, message |-> m]

EvaluateAlerts(campaign, metrics) ==
    (IF GT(Field(metrics, "cpl"), Num(CplTarget))
     THEN << Alert("high_cpl", "warning", <<"cpl_above_target", toFixed2(metrics.cpl)>>) >>
     ELSE << >>)
    \o
    (IF LT(Field(metrics, "roas"), Num(RoasTarget))
        /\ GT(Field(metrics, "conversions"), Num(MinConversions))
     THEN << Alert("low_roas", "critical", <<"roas_below_target", toFixed2(metrics.roas)>>) >>
     ELSE << >>)
    \o
    (IF GT(Field(metrics, "spend"), Mul(Num(campaign.daily_budget), BudgetAlertShare))
     THEN << Alert("budget_exceeded", "info", <<"budget_almost_spent", toFixed2(metrics.spend)>>) >>
     ELSE << >>)

(***************************************************************************)
(* The platform adapters.  An exchange with a platform ends "ok", with an  *)
(* error response ("http_error": 4xx/5xx, auth failure) or without any     *)
(* response ("network_error": fetch rejects).                              *)
(***************************************************************************)
NetOutcomes == {"ok", "http_error", "network_error"}

\* what an adapter call comes to: threw, the `success` of the returned
\* object ("none" when it threw), the requests sent, and whether a request
\* got an error response or no response
AdapterResult(threw, success, requests, failed) ==
    [threw |-> threw, success |-> success, requests |-> requests, failed |-> failed]

MetaExecuteDecision_bidAsBudget(dtype, net) ==
    CASE dtype \in {"bid_adjustment", "budget_reallocation", "pause_campaign"} ->
            IF net = "network_error"
            THEN AdapterResult(TRUE, "none", 1, TRUE)
            ELSE AdapterResult(FALSE, "true", 1, net = "http_error")
      [] OTHER -> AdapterResult(FALSE, "false", 0, FALSE)
MetaExecuteDecision(dtype, net) ==
    CASE dtype = "bid_adjustment" -> AdapterResult(FALSE, "true", 0, FALSE)
      [] dtype \in {"budget_reallocation", "pause_campaign"} ->
            IF net = "network_error"
            THEN AdapterResult(TRUE, "none", 1, TRUE)
            ELSE AdapterResult(FALSE, "true", 1, net = "http_error")
      [] OTHER -> AdapterResult(FALSE, "false", 0, FALSE)

\* getAccessToken is awaited first, whatever the decision type is
GoogleExecuteDecision(dtype, tokenNet, net) ==
    IF tokenNet = "network_error" THEN AdapterResult(TRUE, "none", 1, TRUE)
    ELSE CASE dtype \in {"bid_adjustment", "budget_reallocation"} ->
                AdapterResult(FALSE, "true", 1, tokenNet = "http_error")
           [] dtype = "pause_campaign" ->
                IF net = "network_error"
                THEN AdapterResult(TRUE, "none", 2, TRUE)
                ELSE AdapterResult(FALSE, "true", 2,
                                   tokenNet = "http_error" \/ net = "http_error")
           [] OTHER -> AdapterResult(FALSE, "false", 1, tokenNet = "http_error")

\* the `if (campaign.platform === 'meta') ... else if (... === 'google')` of
\* AIEngine.executeDecision: the adapter is called for every decision type
PlatformExecuteDecision(platform, dtype, tokenNet, net) ==
    IF platform = "meta" THEN MetaExecuteDecision(dtype, net)
    ELSE GoogleExecuteDecision(dtype, tokenNet, net)

\* answers of the platforms' reporting APIs; a missing field is NaN
Response(i, c, s, v) == [impressions |-> i, clicks |-> c, spend |-> s, conversions |-> v]
RespEmpty == Response(NaN, NaN, NaN, NaN)
\* 7 days of a campaign on which every rule's trigger holds: cpl 54.5,
\* roas 0 with 11 conversions, ctr 0.5 on 2000 impressions, spend over budget
RespAllTriggers == Response(Num(2000), Num(10), Num(600), Num(11))
\* a campaign on which no trigger holds: ctr 2, cpl 10, spend 10 of 100
RespHealthy == Response(Num(500), Num(10), Num(10), Num(1))
Responses == {RespAllTriggers, RespHealthy}

\* getCampaignMetrics of either adapter: threw, or the first result row, or
\* {} when the answer carries no row (an error body has none)
GetCampaignMetrics(net, row) ==
    CASE net = "network_error" -> [threw |-> TRUE, value |-> RespEmpty]
      [] net = "http_error"    -> [threw |-> FALSE, value |-> RespEmpty]
      [] OTHER                 -> [threw |-> FALSE, value |-> row]

(***************************************************************************)
(* The D1 tables.                                                          *)
(***************************************************************************)
CampaignRow(id, platform, status, budget) ==
    [id |-> id, platform |-> platform, account_id |-> platform,
     campaign_id |-> 100 + id, status |-> status, daily_budget |-> budget,
     total_spent |-> 0]

InitialCampaigns ==
    (1 :> CampaignRow(1, "google", "active", 100)) @@
    (2 :> CampaignRow(2, "meta", "active", 100)) @@
    (3 :> CampaignRow(3, "meta", "paused", 100)) @@
    (4 :> CampaignRow(4, "google", "archived", 100))

\* the row saveMetrics binds: `metrics.x || 0` for every column
SnapshotRow(campaignId, today, metrics) ==
    [ campaign_id |-> campaignId, date |-> today,
      impressions |-> OrZero(Field(metrics, "impressions")),
      clicks      |-> OrZero(Field(metrics, "clicks")),
      conversions |-> OrZero(Field(metrics, "conversions")),
      spend       |-> OrZero(Field(metrics, "spend")),
      revenue     |-> OrZero(Field(metrics, "revenue")),
      ctr  |-> OrZero(Field(metrics, "ctr")),
      cpc  |-> OrZero(Field(metrics, "cpc")),
      cpl  |-> OrZero(Field(metrics, "cpl")),
      cpa  |-> OrZero(Field(metrics, "cpa")),
      roas |-> OrZero(Field(metrics, "roas")) ]

\* INSERT ... ON CONFLICT(campaign_id, date) DO UPDATE SET ...
UpsertAppend(table, row) == table \cup {row}
UpsertByDate(table, row) == {r \in table : r.date # row.date} \cup {row}
Upsert(table, row) ==
    {r \in table : ~(r.campaign_id = row.campaign_id /\ r.date = row.date)} \cup {row}

\* the row logDecision inserts; metrics_after and success are not bound
DecisionRow(campaignId, decisionType, reason, actionTaken) ==
    [ campaign_id |-> campaignId, decision_type |-> decisionType, reason |-> reason,
      action_taken |-> actionTaken, metrics_before |-> "NULL",
      metrics_after |-> "NULL", success |-> "NULL" ]

\* INSERT INTO ai_decisions
InsertReplacingLast(table, row) ==
    IF table = << >> THEN << row >> ELSE [table EXCEPT ![Len(table)] = row]
InsertDecision(table, row) == Append(table, row)

AlertRow(campaignId, alert) ==
    [ campaign_id |-> campaignId, alert_type |-> alert.type, severity |-> alert.severity,
      message |-> alert.message, resolved |-> 0 ]

\* INSERT INTO alerts
InsertAlertUnlessOpen(table, row) ==
    IF \E n \in 1..Len(table) :
          /\ table[n].campaign_id = row.campaign_id
          /\ table[n].alert_type = row.alert_type
          /\ table[n].resolved = 0
    THEN table
    ELSE Append(table, row)
InsertAlert(table, row) == Append(table, row)

(***************************************************************************)
(* State.                                                                  *)
(***************************************************************************)
VARIABLES
    campaigns,            \* table campaigns: id -> row
    performance_metrics,  \* table performance_metrics: set of rows
    ai_decisions,         \* table ai_decisions, in insertion (rowid) order
    alerts,               \* table alerts, in insertion order
    today,                \* the calendar day of `new Date()`
    hour,                 \* makeOptimizationDecision: new Date().getHours(), 0
                          \* while the running operation has not read the clock
    pc,                   \* where the running operation is suspended
    caller,               \* "monitor": a pass runs; "api": the engine was
                          \* called directly; "none": nothing runs
    passList,             \* monitorAll: the rows the query returned
    idx,                  \* monitorAll: position of the for-of loop
    campaignId,           \* makeOptimizationDecision/executeDecision: argument
    platformMetrics,      \* monitorCampaign: the adapter's answer
    metrics,              \* monitorCampaign: calculateMetrics(...); the
                          \* engine's `metrics` argument
    decisions,            \* makeOptimizationDecision: the list built
    dIdx,                 \* makeOptimizationDecision: position in it
    dbCampaign,           \* executeDecision: the row read back
    result,               \* executeDecision: the adapter's result
    alertList,            \* checkAndCreateAlerts: the list built
    aIdx,                 \* checkAndCreateAlerts: position in it
    trace,                \* what the running operation did so far (history)
    ops,                  \* operations started (history)
    faults,               \* failed external calls (history)
    escaped,              \* an exception left monitorAll (history)
    CONFIG,               \* KV namespace CONFIG: knowledge:<platform>:hash
    knowledge_versions,   \* table knowledge_versions, in insertion order
    updater,              \* KnowledgeUpdater: the for-of position and the
                          \* locals of checkSource
    retry                 \* retryWithBackoff: its arguments, its loop variable
                          \* and how the call ended

db == << campaigns, performance_metrics, ai_decisions, alerts >>
monitorLocals == << passList, idx, platformMetrics, alertList, aIdx >>
engineLocals == << campaignId, decisions, dIdx, dbCampaign, result >>
vars == << campaigns, performance_metrics, ai_decisions, alerts, today, hour, pc, caller,
           passList, idx, campaignId, platformMetrics, metrics, decisions, dIdx,
           dbCampaign, result, alertList, aIdx, trace, ops, faults, escaped,
           CONFIG, knowledge_versions, updater, retry >>
\* the state of the collaborators beside the monitoring loop
collaborators == << CONFIG, knowledge_versions, updater, retry >>

\* the hours of the day a pass or a call is observed at
Hours == {9, 12, 15}

\* one entry of the history
Ev(ev, cid, kind, ok, data) == [ev |-> ev, cid |-> cid, kind |-> kind, ok |-> ok, data |-> data]

\* the first entry of an operation's history: the sizes of the insert-only
\* tables when it started
OpStart == Ev("start", 0, "", TRUE, [decisions |-> Len(ai_decisions), alerts |-> Len(alerts)])

NoMetrics == calculateMetrics(RawCounters(RespEmpty))
NoResult == AdapterResult(FALSE, "none", 0, FALSE)
NoCampaign == CampaignRow(0, "none", "none", 0)

\* the metrics a direct caller hands to makeOptimizationDecision
MetricsAllRules ==
    [ cpl |-> Num(60), roas |-> Rat(3, 2), conversions |-> Num(15), ctr |-> Rat(1, 2),
      impressions |-> Num(2000), spend |-> Num(85), dailyBudget |-> Num(100) ]
MetricsHealthy ==
    [ cpl |-> Num(30), roas |-> Num(3), ctr |-> Num(2), impressions |-> Num(500),
      spend |-> Num(10), dailyBudget |-> Num(100) ]
EngineInputs == {MetricsAllRules, MetricsHealthy}
\* metrics on and beyond the threshold of every rule
MetricsGrid ==
    { [ cpl |-> Num(a), roas |-> b, conversions |-> Num(c), ctr |-> d,
        impressions |-> Num(e), spend |-> Num(f), dailyBudget |-> Num(100) ] :
        a \in {50, 60}, b \in {Rat(3, 2), Num(2)}, c \in {10, 15},
        d \in {Rat(1, 2), Num(1)}, e \in {1000, 2000}, f \in {80, 85} }
EvaluatorInputs == MetricsGrid \cup EngineInputs
\* 0 is the id of no campaign
EngineCampaignIds == {0, 1, 2}

\* the sources of KnowledgeUpdater, in the order of its constructor
Sources == << "meta", "google_ads", "ga4", "cloudflare" >>
\* CONFIG.get gives null for a key never put
NoHash == << >>
NoUpdater ==
    [ sIdx |-> 0, content |-> << >>, currentHash |-> NoHash, previousHash |-> NoHash,
      breakingChanges |-> << >> ]
NoRetry == [ maxRetries |-> 0, baseDelay |-> 0, i |-> 0, outcome |-> "none", value |-> 0 ]

Init ==
    /\ campaigns = InitialCampaigns
    /\ performance_metrics = {}
    /\ ai_decisions = << >>
    /\ alerts = << >>
    /\ today = 1
    /\ hour = 0
    /\ pc = "Idle"
    /\ caller = "none"
    /\ passList = << >>
    /\ idx = 0
    /\ campaignId = 0
    /\ platformMetrics = RespEmpty
    /\ metrics = NoMetrics
    /\ decisions = << >>
    /\ dIdx = 0
    /\ dbCampaign = NoCampaign
    /\ result = NoResult
    /\ alertList = << >>
    /\ aIdx = 0
    /\ trace = << >>
    /\ ops = 0
    /\ faults = 0
    /\ escaped = FALSE
    /\ CONFIG = [k \in {Sources[n] : n \in 1..Len(Sources)} |-> NoHash]
    /\ knowledge_versions = << >>
    /\ updater = NoUpdater
    /\ retry = NoRetry

(***************************************************************************)
(* Control flow of monitorAll / monitorCampaign.                           *)
(***************************************************************************)
Ctl(p, i, e) == [pc |-> p, idx |-> i, escaped |-> e]

\* the for-of loop of monitorAll after monitorCampaign(passList[i]) returned
NextCampaign_reversed(i, n) ==
    IF i = 0
    THEN (IF n > 0 THEN Ctl("FetchMetrics", n, FALSE) ELSE Ctl("Completed", 1, FALSE))
    ELSE (IF i > 1 THEN Ctl("FetchMetrics", i - 1, FALSE) ELSE Ctl("Completed", n + 1, FALSE))
NextCampaign(i, n) ==
    IF i < n THEN Ctl("FetchMetrics", i + 1, FALSE) ELSE Ctl("Completed", i + 1, FALSE)

\* catch of monitorAll: log, return normally
monitorAll_rethrow(i) == Ctl("Completed", i, TRUE)
monitorAll_catch(i) == Ctl("Completed", i, FALSE)

\* catch of monitorCampaign: log, return normally to the loop
monitorCampaign_retry(i, n) == Ctl("FetchMetrics", i, FALSE)
monitorCampaign_rethrow(i, n) == monitorAll_catch(i)
monitorCampaign_catch(i, n) == NextCampaign(i, n)

\* the statement of monitorCampaign that follows a step that returned
monitorCampaign_dispatchFirst(stage) ==
    CASE stage = "FetchMetrics" -> "Evaluate"
      [] stage = "Evaluate" -> "PersistSnapshot"
      [] stage = "PersistSnapshot" -> "Alert"
monitorCampaign_then(stage) ==
    CASE stage = "FetchMetrics" -> "PersistSnapshot"
      [] stage = "PersistSnapshot" -> "Evaluate"
      [] stage = "Evaluate" -> "Alert"

Control(ctl) ==
    /\ pc' = ctl.pc
    /\ idx' = ctl.idx
    /\ escaped' = (escaped \/ ctl.escaped)
    /\ caller' = caller

\* an exception raised inside monitorCampaign (caller "monitor") or inside
\* a direct engine call (caller "api": it reaches the caller)
Throw(cid, kind, events) ==
    IF caller = "monitor"
    THEN /\ trace' = trace \o events \o << Ev("error", cid, kind, FALSE, 0) >>
         /\ Control(monitorCampaign_catch(idx, Len(passList)))
    ELSE /\ trace' = trace \o events \o << Ev("throw", cid, kind, FALSE, 0) >>
         /\ Control(Ctl("Completed", idx, FALSE))

\* a failing external call is allowed while the budget lasts
Fault(failed) ==
    /\ failed => faults < MaxFaults
    /\ faults' = IF failed THEN faults + 1 ELSE faults

\* the rows of a SELECT without ORDER BY come in rowid order, which is the
\* order of insertion and of the ids
InRowidOrder(S) ==
    CHOOSE s \in [1..Cardinality(S) -> S] : \A i, j \in 1..Cardinality(S) : i < j => s[i] < s[j]

(***************************************************************************)
(* monitorAll                                                              *)
(***************************************************************************)
monitorAll_start ==
    /\ pc = "Idle"
    /\ ops < MaxOps
    /\ ops' = ops + 1
    /\ pc' = "FetchingCampaigns"
    /\ caller' = "monitor"
    /\ trace' = << OpStart >>
    /\ UNCHANGED << db, today, hour, passList, idx, campaignId, platformMetrics, metrics,
                    decisions, dIdx, dbCampaign, result, alertList, aIdx, faults, escaped >>
    /\ UNCHANGED collaborators

\* SELECT * FROM campaigns WHERE status = 'active'
AllCampaignIds == DOMAIN campaigns
ActiveIds == {id \in DOMAIN campaigns : campaigns[id].status = "active"}

monitorAll_query ==
    /\ pc = "FetchingCampaigns"
    /\ \/ /\ Fault(FALSE)
          /\ LET order == InRowidOrder(ActiveIds) IN
                /\ passList' = [i \in 1..Len(order) |-> campaigns[order[i]]]
                /\ Control(NextCampaign(0, Len(order)))
          /\ trace' = Append(trace, Ev("query", 0, "", TRUE, 0))
       \/ /\ Fault(TRUE)
          /\ trace' = Append(trace, Ev("query", 0, "", FALSE, 0))
          /\ Control(monitorAll_catch(idx))
          /\ UNCHANGED passList
    /\ UNCHANGED << db, today, hour, campaignId, platformMetrics, metrics, decisions, dIdx,
                    dbCampaign, result, alertList, aIdx, ops >>
    /\ UNCHANGED collaborators

(***************************************************************************)
(* monitorCampaign                                                         *)
(***************************************************************************)
\* await getCampaignMetrics(campaign.campaign_id), then calculateMetrics
monitorCampaign_fetch ==
    /\ pc = "FetchMetrics"
    /\ LET c == passList[idx] IN
       \E net \in NetOutcomes, row \in Responses :
          LET g == GetCampaignMetrics(net, row) IN
          IF c.platform \notin {"meta", "google"}
          THEN \* platformMetrics stays undefined: reading a property throws
               /\ Fault(FALSE)
               /\ Throw(c.id, "fetch", << >>)
               /\ UNCHANGED << platformMetrics, metrics >>
          ELSE /\ Fault(net # "ok")
               /\ IF g.threw
                  THEN /\ Throw(c.id, "fetch", << Ev("fetch", c.id, c.platform, FALSE, g.value) >>)
                       /\ UNCHANGED << platformMetrics, metrics >>
                  ELSE /\ platformMetrics' = g.value
                       /\ metrics' = calculateMetrics(RawCounters(g.value))
                       /\ trace' = trace \o
                            << Ev("fetch", c.id, c.platform, TRUE, g.value),
                               Ev("normalize", c.id, "", TRUE, metrics') >>
                       /\ pc' = monitorCampaign_then("FetchMetrics")
                       /\ UNCHANGED << idx, escaped, caller >>
    /\ UNCHANGED << db, today, hour, passList, campaignId, decisions, dIdx, dbCampaign, result,
                    alertList, aIdx, ops >>
    /\ UNCHANGED collaborators

\* await this.saveMetrics(campaign.id, metrics)
saveMetrics(table, id, date, m) == Upsert(table, SnapshotRow(id, date, m))

monitorCampaign_save ==
    /\ pc = "PersistSnapshot"
    /\ LET c == passList[idx] IN
       \/ /\ Fault(FALSE)
          /\ performance_metrics' = saveMetrics(performance_metrics, c.id, today, metrics)
          /\ trace' = Append(trace, Ev("save", c.id, "", TRUE,
                [ row |-> SnapshotRow(c.id, today, metrics),
                  before |-> {r \in performance_metrics :
                                r.campaign_id = c.id /\ r.date = today} ]))
          /\ campaignId' = c.id
          /\ pc' = monitorCampaign_then("PersistSnapshot")
          /\ UNCHANGED << idx, escaped, caller >>
       \/ /\ Fault(TRUE)
          /\ Throw(c.id, "save", << Ev("save", c.id, "", FALSE, 0) >>)
          /\ UNCHANGED << performance_metrics, campaignId >>
    /\ UNCHANGED << campaigns, ai_decisions, alerts, today, hour, passList, platformMetrics,
                    metrics, decisions, dIdx, dbCampaign, result, alertList, aIdx, ops >>
    /\ UNCHANGED collaborators

(***************************************************************************)
(* AIEngine.makeOptimizationDecision / executeDecision / logDecision       *)
(***************************************************************************)
\* makeOptimizationDecision returned (normally) to whoever called it
EngineReturn(events) ==
    IF caller = "monitor"
    THEN /\ trace' = trace \o events
         /\ pc' = monitorCampaign_then("Evaluate")
         /\ UNCHANGED << idx, escaped, caller >>
    ELSE /\ trace' = trace \o events \o << Ev("return", campaignId, "", TRUE, 0) >>
         /\ Control(Ctl("Completed", idx, FALSE))

\* `a && new Date().getHours() < 12`: the clock is read only when the spend
\* test holds
ReadsClock(m) == GT(Field(m, "spend"), Mul(Field(m, "dailyBudget"), PacingShare))

\* the rules, evaluated synchronously when makeOptimizationDecision is entered
makeOptimizationDecision_evaluate ==
    /\ pc = "Evaluate"
    /\ hour' \in (IF ReadsClock(metrics) THEN Hours ELSE {hour})
    /\ decisions' = EvaluateRules(metrics, hour')
    /\ LET e == Ev("evaluate", campaignId, "", TRUE, [hour |-> hour', decisions |-> decisions']) IN
       IF decisions' # << >>
       THEN /\ dIdx' = 1
            /\ pc' = "DispatchLookup"
            /\ trace' = Append(trace, e)
            /\ UNCHANGED << idx, escaped, caller >>
       ELSE /\ dIdx' = 0
            /\ EngineReturn(<< e >>)
    /\ UNCHANGED << db, today, passList, campaignId, platformMetrics, metrics, dbCampaign,
                    result, alertList, aIdx, ops, faults >>
    /\ UNCHANGED collaborators

\* executeDecision: SELECT * FROM campaigns WHERE id = ?
executeDecision_lookup ==
    /\ pc = "DispatchLookup"
    /\ LET t == decisions[dIdx].type IN
       \/ /\ Fault(FALSE)
          /\ IF campaignId \in DOMAIN campaigns
             THEN /\ dbCampaign' = campaigns[campaignId]
                  /\ pc' = "DispatchPlatform"
                  /\ trace' = Append(trace, Ev("lookup", campaignId, t, TRUE, 0))
                  /\ UNCHANGED << idx, escaped, caller >>
             ELSE \* throw new Error('Campaign not found')
                  /\ Throw(campaignId, "not_found", << Ev("lookup", campaignId, t, FALSE, 0) >>)
                  /\ UNCHANGED dbCampaign
       \/ /\ Fault(TRUE)
          /\ Throw(campaignId, "lookup", << Ev("lookup", campaignId, t, FALSE, 0) >>)
          /\ UNCHANGED dbCampaign
    /\ UNCHANGED << db, today, hour, passList, campaignId, platformMetrics, metrics, decisions,
                    dIdx, result, alertList, aIdx, ops >>
    /\ UNCHANGED collaborators

\* executeDecision: await <adapter>.executeDecision(campaign.campaign_id, decision)
executeDecision_platform ==
    /\ pc = "DispatchPlatform"
    /\ LET t == decisions[dIdx].type IN
       IF dbCampaign.platform \notin {"meta", "google"}
       THEN \* no adapter: result stays undefined
            /\ Fault(FALSE)
            /\ result' = NoResult
            /\ pc' = "DispatchLog"
            /\ UNCHANGED << trace, idx, escaped, caller >>
       ELSE \E tokenNet \in NetOutcomes, net \in NetOutcomes :
              LET r == PlatformExecuteDecision(dbCampaign.platform, t, tokenNet, net)
                  e == Ev("adapter", campaignId, t, ~r.threw,
                          [platform |-> dbCampaign.platform, result |-> r])
              IN  /\ Fault(r.failed)
                  /\ IF r.threw
                     THEN /\ Throw(campaignId, "adapter", << e >>)
                          /\ UNCHANGED result
                     ELSE /\ result' = r
                          /\ pc' = "DispatchLog"
                          /\ trace' = Append(trace, e)
                          /\ UNCHANGED << idx, escaped, caller >>
    /\ UNCHANGED << db, today, hour, passList, campaignId, platformMetrics, metrics, decisions,
                    dIdx, dbCampaign, alertList, aIdx, ops >>
    /\ UNCHANGED collaborators

\* the campaigns table after executeDecision dispatched a decision: the
\* method holds no UPDATE, whatever the adapter answered
executeDecision_appliesBudget(table, id, decision, res) ==
    IF decision.type = "budget_reallocation" /\ res.success = "true"
    THEN [table EXCEPT ![id].daily_budget = (@ * (100 + BudgetAdjustment)) \div 100]
    ELSE table
executeDecision_campaigns(table, id, decision, res) == table

\* logDecision: INSERT INTO ai_decisions; action_taken is
\* JSON.stringify({ decision, result })
logDecision(table, id, decisionType, reason, actionTaken) ==
    InsertDecision(table, DecisionRow(id, decisionType, reason, actionTaken))

executeDecision_log ==
    /\ pc = "DispatchLog"
    /\ LET d == decisions[dIdx] IN
       \/ /\ Fault(FALSE)
          /\ ai_decisions' = logDecision(ai_decisions, campaignId, d.type, d.reason,
                                         [decision |-> d, result |-> result])
          /\ campaigns' = executeDecision_campaigns(campaigns, campaignId, d, result)
          /\ IF dIdx < Len(decisions)
             THEN /\ dIdx' = dIdx + 1
                  /\ pc' = "DispatchLookup"
                  /\ trace' = Append(trace, Ev("ledger", campaignId, d.type, TRUE, 0))
                  /\ UNCHANGED << idx, escaped, caller >>
             ELSE /\ dIdx' = dIdx
                  /\ EngineReturn(<< Ev("ledger", campaignId, d.type, TRUE, 0) >>)
       \/ /\ Fault(TRUE)
          /\ Throw(campaignId, "ledger", << Ev("ledger", campaignId, d.type, FALSE, 0) >>)
          /\ UNCHANGED << campaigns, ai_decisions, dIdx >>
    /\ UNCHANGED << performance_metrics, alerts, today, hour, passList, campaignId,
                    platformMetrics, metrics, decisions, dbCampaign, result, alertList,
                    aIdx, ops >>
    /\ UNCHANGED collaborators

\* a caller other than the monitor invokes makeOptimizationDecision
makeOptimizationDecision_call ==
    /\ pc = "Idle"
    /\ ops < MaxOps
    /\ ops' = ops + 1
    /\ \E id \in EngineCampaignIds, m \in EngineInputs :
          /\ campaignId' = id
          /\ metrics' = m
    /\ caller' = "api"
    /\ pc' = "Evaluate"
    /\ trace' = << OpStart >>
    /\ UNCHANGED << db, today, hour, passList, idx, platformMetrics, decisions, dIdx, dbCampaign,
                    result, alertList, aIdx, faults, escaped >>
    /\ UNCHANGED collaborators

(***************************************************************************)
(* calculateMetrics called by an importer of utils/helpers.js with         *)
(* counters of its own.                                                    *)
(***************************************************************************)
CounterGrid ==
    { [impressions |-> Num(i), clicks |-> Num(c), spend |-> sp, conversions |-> cv,
       revenue |-> Num(rv)] :
        i \in {0, 1000, 2000}, c \in {0, 10, 3000}, sp \in {Num(0), Rat(1, 2), Num(600)},
        cv \in {Num(0), Rat(1, 2), Num(11)}, rv \in {0, 100, 1500} }

calculateMetrics_call ==
    /\ pc = "Idle"
    /\ ops < MaxOps
    /\ ops' = ops + 1
    /\ \E data \in CounterGrid :
          /\ metrics' = calculateMetrics(data)
          /\ trace' = << OpStart, Ev("calculate", 0, "", TRUE, [data |-> data, metrics |-> metrics']) >>
    /\ caller' = "helper"
    /\ pc' = "Completed"
    /\ UNCHANGED << db, today, hour, passList, idx, campaignId, platformMetrics, decisions,
                    dIdx, dbCampaign, result, alertList, aIdx, faults, escaped >>
    /\ UNCHANGED collaborators

(***************************************************************************)
(* CampaignMonitor.checkAndCreateAlerts                                    *)
(***************************************************************************)
\* monitorCampaign ran to its end
CampaignDone(events) ==
    /\ trace' = trace \o events \o << Ev("done", passList[idx].id, "", TRUE, 0) >>
    /\ Control(NextCampaign(idx, Len(passList)))

checkAndCreateAlerts_evaluate ==
    /\ pc = "Alert"
    /\ LET c == passList[idx] IN
       /\ alertList' = EvaluateAlerts(c, metrics)
       /\ LET e == Ev("alerts", c.id, "", TRUE, alertList') IN
          IF alertList' # << >>
          THEN /\ aIdx' = 1
               /\ pc' = "AlertInsert"
               /\ trace' = Append(trace, e)
               /\ UNCHANGED << idx, escaped, caller >>
          ELSE /\ aIdx' = 0
               /\ CampaignDone(<< e >>)
    /\ UNCHANGED << db, today, hour, passList, campaignId, platformMetrics, metrics, decisions,
                    dIdx, dbCampaign, result, ops, faults >>
    /\ UNCHANGED collaborators

\* INSERT INTO alerts, one alert of the list
checkAndCreateAlerts_insert ==
    /\ pc = "AlertInsert"
    /\ LET c == passList[idx]
           a == alertList[aIdx]
       IN
       \/ /\ Fault(FALSE)
          /\ alerts' = InsertAlert(alerts, AlertRow(c.id, a))
          /\ IF aIdx < Len(alertList)
             THEN /\ aIdx' = aIdx + 1
                  /\ trace' = Append(trace, Ev("alert", c.id, a.type, TRUE, 0))
                  /\ UNCHANGED << pc, idx, escaped, caller >>
             ELSE /\ aIdx' = aIdx
                  /\ CampaignDone(<< Ev("alert", c.id, a.type, TRUE, 0) >>)
       \/ /\ Fault(TRUE)
          /\ Throw(c.id, "alert", << Ev("alert", c.id, a.type, FALSE, 0) >>)
          /\ UNCHANGED << alerts, aIdx >>
    /\ UNCHANGED << campaigns, performance_metrics, ai_decisions, today, hour, passList,
                    campaignId, platformMetrics, metrics, decisions, dIdx, dbCampaign,
                    result, alertList, ops >>
    /\ UNCHANGED collaborators

(***************************************************************************)
(* AIEngine.createCampaign (POST /api/campaign/create), a request that may *)
(* be served while a pass is suspended.  Its awaits, in order: the         *)
(* platform's createCampaign, INSERT INTO campaigns, logDecision.          *)
(***************************************************************************)
\* the status bound by INSERT INTO campaigns
CreatedStatusActive == "active"
CreatedStatus == "paused"

CreateOutcomes == {"ok", "platform_throws", "insert_throws", "log_throws"}

createCampaign ==
    /\ ops < MaxOps
    /\ ops' = ops + 1
    /\ \E platform \in {"meta", "google"}, outcome \in CreateOutcomes :
          LET id == Cardinality(DOMAIN campaigns) + 1
              budget == 100
          IN  /\ Fault(outcome # "ok")
              /\ campaigns' =
                    IF outcome \in {"ok", "log_throws"}
                    THEN campaigns @@ (id :> CampaignRow(id, platform, CreatedStatus, budget))
                    ELSE campaigns
              /\ ai_decisions' =
                    IF outcome = "ok"
                    THEN logDecision(ai_decisions, id, "campaign_creation",
                                     << "campaign_created", budget >>,
                                     [decision |-> Decision("campaign_creation", "create",
                                                            << "campaign_created", budget >>, 0),
                                      result |-> AdapterResult(FALSE, "true", 2, FALSE)])
                    ELSE ai_decisions
    /\ UNCHANGED << performance_metrics, alerts, today, hour, pc, caller, passList, idx,
                    campaignId, platformMetrics, metrics, decisions, dIdx, dbCampaign,
                    result, alertList, aIdx, trace, escaped >>
    /\ UNCHANGED collaborators

(***************************************************************************)
(* A campaign row leaves the table while a pass is suspended (the store is  *)
(* shared: D1 console, another deployment).  The code holds no DELETE; the  *)
(* `if (!campaign)` of executeDecision is written for this case.  The event *)
(* is counted with the failed external calls.                               *)
(***************************************************************************)
campaign_deleted ==
    /\ caller = "monitor"
    /\ pc \in {"PersistSnapshot", "Evaluate", "DispatchLookup"}
    /\ passList[idx].id \in DOMAIN campaigns
    /\ Fault(TRUE)
    /\ campaigns' = [id \in DOMAIN campaigns \ {passList[idx].id} |-> campaigns[id]]
    /\ UNCHANGED << performance_metrics, ai_decisions, alerts, today, hour, pc, caller,
                    passList, idx, campaignId, platformMetrics, metrics, decisions, dIdx,
                    dbCampaign, result, alertList, aIdx, trace, ops, escaped >>
    /\ UNCHANGED collaborators

(***************************************************************************)
(* retryWithBackoff(fn, maxRetries, baseDelay) of utils/helpers.js, called  *)
(* by an importer with a function of its own.  Attempt i of fn resolves to  *)
(* a value or rejects with an error; both are named after the attempt.      *)
(***************************************************************************)
DefaultMaxRetries == 3
DefaultBaseDelay == 1000
RetryCounts == 0..(DefaultMaxRetries + 1)
BaseDelays == {0, 1, DefaultBaseDelay}

\* `if (i === maxRetries - 1) throw error`
IsLastAttempt_offByOne(i, maxRetries) == i = maxRetries
IsLastAttempt(i, maxRetries) == i = maxRetries - 1
\* baseDelay * Math.pow(2, i)
BackoffDelay(baseDelay, i) == baseDelay * 2^i

\* the for statement: run the body while i < maxRetries, else fall off the
\* end of the function, which resolves to undefined
retryWithBackoff_loop(r, i) ==
    IF i < r.maxRetries
    THEN /\ retry' = [r EXCEPT !.i = i]
         /\ pc' = "RetryAttempt"
    ELSE /\ retry' = [r EXCEPT !.i = i, !.outcome = "undefined"]
         /\ pc' = "Completed"

retryWithBackoff_call ==
    /\ pc = "Idle"
    /\ ops < MaxOps
    /\ ops' = ops + 1
    /\ caller' = "retry"
    /\ trace' = << OpStart >>
    /\ \E n \in RetryCounts, d \in BaseDelays :
          retryWithBackoff_loop([NoRetry EXCEPT !.maxRetries = n, !.baseDelay = d], 0)
    /\ UNCHANGED << db, today, hour, monitorLocals, engineLocals, metrics, faults, escaped,
                    CONFIG, knowledge_versions, updater >>

\* try { return await fn() } catch (error) { ... }
retryWithBackoff_attempt ==
    /\ pc = "RetryAttempt"
    /\ \E resolved \in BOOLEAN :
          LET e == Ev("attempt", 0, "", resolved, retry.i) IN
          IF resolved
          THEN /\ retry' = [retry EXCEPT !.outcome = "returned", !.value = retry.i]
               /\ pc' = "Completed"
               /\ trace' = Append(trace, e)
          ELSE IF IsLastAttempt(retry.i, retry.maxRetries)
               THEN /\ retry' = [retry EXCEPT !.outcome = "threw", !.value = retry.i]
                    /\ pc' = "Completed"
                    /\ trace' = Append(trace, e)
               ELSE /\ pc' = "RetrySleep"
                    /\ trace' = Append(trace, e)
                    /\ UNCHANGED retry
    /\ UNCHANGED << db, today, hour, caller, monitorLocals, engineLocals, metrics, ops, faults,
                    escaped, CONFIG, knowledge_versions, updater >>

\* await sleep(delay), then i++
retryWithBackoff_sleep ==
    /\ pc = "RetrySleep"
    /\ trace' = Append(trace, Ev("sleep", 0, "", TRUE, BackoffDelay(retry.baseDelay, retry.i)))
    /\ retryWithBackoff_loop(retry, retry.i + 1)
    /\ UNCHANGED << db, today, hour, caller, monitorLocals, engineLocals, metrics, ops, faults,
                    escaped, CONFIG, knowledge_versions, updater >>

(***************************************************************************)
(* KnowledgeUpdater (cron '0 0 * * *').  A page is a sequence of lines, a   *)
(* line a sequence of words.                                                *)
(***************************************************************************)
PageA == << << "Release", "notes" >>, << "Added", "field", "x" >> >>
PageB == << << "Release", "notes" >>, << "Added", "field", "x" >>, << "Added", "field", "y" >> >>
PageD ==
    << << "Release", "notes" >>, << "Deprecated", "field", "x" >>,
       << "Endpoint", "is", "no", "longer", "supported" >> >>
\* what `fetch(source.url)` may answer over the checks observed
PageContents(platform) ==
    CASE platform = "meta" -> {PageA, PageB, PageD}
      [] platform = "google_ads" -> {PageA, PageD}
      [] OTHER -> {PageA}

\* SHA-256 in hex: one hash per content, never the empty value
hashContent(content) == << "sha256", content >>

\* String.prototype.toLowerCase on the words in use
toLowerCase(w) ==
    CASE w = "Deprecated" -> "deprecated"
      [] w = "Removed" -> "removed"
      [] w = "BREAKING:" -> "breaking:"
      [] OTHER -> w
breakingKeywords ==
    << << "breaking", "change" >>, << "deprecated" >>, << "removed" >>,
       << "no", "longer", "supported" >>, << "breaking:" >>, << "BREAKING:" >> >>
\* line.toLowerCase().includes(keyword.toLowerCase())
Includes(line, keyword) ==
    \E k \in 0..(Len(line) - Len(keyword)) :
        \A j \in 1..Len(keyword) : toLowerCase(line[k + j]) = toLowerCase(keyword[j])
IsBreakingLine(line) == \E n \in 1..Len(breakingKeywords) : Includes(line, breakingKeywords[n])
detectBreakingChanges(content) == SelectSeq(content, IsBreakingLine)

\* the row saveNewVersion inserts
VersionRow(platform, breakingChanges) ==
    [ platform |-> platform, changelog |-> "Auto-detected update",
      breaking_changes |-> IF Len(breakingChanges) > 0 THEN 1 ELSE 0, applied |-> 0 ]
\* the row createBreakingChangeAlert inserts: campaign_id is bound to null
BreakingChangeAlertRow(platform, breakingChanges) ==
    [ campaign_id |-> "NULL", alert_type |-> "breaking_change_detected",
      severity |-> "critical",
      message |-> << "breaking_changes_detected", platform,
                     SubSeq(breakingChanges, 1, IF Len(breakingChanges) < 3
                                                THEN Len(breakingChanges) ELSE 3) >>,
      resolved |-> 0 ]

KnowledgeStart ==
    Ev("start", 0, "", TRUE, [decisions |-> Len(ai_decisions), alerts |-> Len(alerts),
                              versions |-> Len(knowledge_versions)])

\* the for-of loop of checkForUpdates after checkSource(Sources[i]) returned
NextSource(i) ==
    IF i < Len(Sources) THEN [pc |-> "CheckSource", sIdx |-> i + 1]
    ELSE [pc |-> "Completed", sIdx |-> i + 1]
\* catch of checkSource: log, return normally to the loop
checkSource_rethrow(i) == [pc |-> "Completed", sIdx |-> i]
checkSource_catch(i) == NextSource(i)

GoTo(ctl) ==
    /\ pc' = ctl.pc
    /\ updater' = [NoUpdater EXCEPT !.sIdx = ctl.sIdx]
\* checkSource ran to its end / an await of checkSource threw
SourceDone(events) ==
    /\ trace' = trace \o events \o << Ev("checked", 0, Sources[updater.sIdx], TRUE, 0) >>
    /\ GoTo(NextSource(updater.sIdx))
SourceCaught(events) ==
    /\ trace' = trace \o events \o << Ev("caught", 0, Sources[updater.sIdx], FALSE, 0) >>
    /\ GoTo(checkSource_catch(updater.sIdx))

checkForUpdates_start ==
    /\ pc = "Idle"
    /\ ops < MaxOps
    /\ ops' = ops + 1
    /\ caller' = "knowledge"
    /\ trace' = << KnowledgeStart >>
    /\ GoTo(NextSource(0))
    /\ UNCHANGED << db, today, hour, monitorLocals, engineLocals, metrics, faults, escaped,
                    CONFIG, knowledge_versions, retry >>

\* fetch, response.text(), hashContent, CONFIG.get and the comparison
checkSource_fetch ==
    /\ pc = "CheckSource"
    /\ LET p == Sources[updater.sIdx] IN
       \E content \in PageContents(p), failed \in {"none", "fetch", "get"} :
          LET cur == hashContent(content)
              prev == CONFIG[p]
              e == Ev("source", 0, p, failed = "none",
                      [content |-> content, currentHash |-> cur, previousHash |-> prev])
          IN  /\ Fault(failed # "none")
              /\ IF failed # "none"
                 THEN SourceCaught(<< e >>)
                 ELSE IF prev # NoHash /\ cur # prev
                 THEN /\ updater' = [updater EXCEPT !.content = content, !.currentHash = cur,
                                        !.previousHash = prev,
                                        !.breakingChanges = detectBreakingChanges(content)]
                      /\ pc' = "SaveVersion"
                      /\ trace' = Append(trace, e)
                 ELSE IF prev = NoHash
                 THEN /\ updater' = [updater EXCEPT !.content = content, !.currentHash = cur,
                                        !.previousHash = prev]
                      /\ pc' = "PutHash"
                      /\ trace' = Append(trace, e)
                 ELSE SourceDone(<< e >>)
    /\ UNCHANGED << db, today, hour, caller, monitorLocals, engineLocals, metrics, ops, escaped,
                    CONFIG, knowledge_versions, retry >>

\* saveNewVersion: INSERT INTO knowledge_versions
saveNewVersion_insert ==
    /\ pc = "SaveVersion"
    /\ LET p == Sources[updater.sIdx]
           row == VersionRow(p, updater.breakingChanges)
       IN
       \/ /\ Fault(FALSE)
          /\ knowledge_versions' = Append(knowledge_versions, row)
          /\ pc' = "StoreContent"
          /\ trace' = Append(trace, Ev("version", 0, p, TRUE, row))
          /\ UNCHANGED updater
       \/ /\ Fault(TRUE)
          /\ SourceCaught(<< Ev("version", 0, p, FALSE, row) >>)
          /\ UNCHANGED knowledge_versions
    /\ UNCHANGED << db, today, hour, caller, monitorLocals, engineLocals, metrics, ops, escaped,
                    CONFIG, retry >>

\* saveNewVersion: STORAGE.put of the page
saveNewVersion_store ==
    /\ pc = "StoreContent"
    /\ LET p == Sources[updater.sIdx] IN
       \/ /\ Fault(FALSE)
          /\ pc' = "PutHash"
          /\ trace' = Append(trace, Ev("storage", 0, p, TRUE, 0))
          /\ UNCHANGED updater
       \/ /\ Fault(TRUE)
          /\ SourceCaught(<< Ev("storage", 0, p, FALSE, 0) >>)
    /\ UNCHANGED << db, today, hour, caller, monitorLocals, engineLocals, metrics, ops, escaped,
                    CONFIG, knowledge_versions, retry >>

\* CONFIG.put of the current hash, in either branch; updateVectorize, which
\* follows in the update branch, inserts nothing
checkSource_putHash ==
    /\ pc = "PutHash"
    /\ LET p == Sources[updater.sIdx] IN
       \/ /\ Fault(FALSE)
          /\ CONFIG' = [CONFIG EXCEPT ![p] = updater.currentHash]
          /\ IF updater.previousHash # NoHash /\ Len(updater.breakingChanges) > 0
             THEN /\ pc' = "BreakingAlert"
                  /\ trace' = Append(trace, Ev("put", 0, p, TRUE, updater.currentHash))
                  /\ UNCHANGED updater
             ELSE SourceDone(<< Ev("put", 0, p, TRUE, updater.currentHash) >>)
       \/ /\ Fault(TRUE)
          /\ SourceCaught(<< Ev("put", 0, p, FALSE, updater.currentHash) >>)
          /\ UNCHANGED CONFIG
    /\ UNCHANGED << db, today, hour, caller, monitorLocals, engineLocals, metrics, ops, escaped,
                    knowledge_versions, retry >>

\* createBreakingChangeAlert: INSERT INTO alerts
createBreakingChangeAlert ==
    /\ pc = "BreakingAlert"
    /\ LET p == Sources[updater.sIdx] IN
       \/ /\ Fault(FALSE)
          /\ alerts' = InsertAlert(alerts, BreakingChangeAlertRow(p, updater.breakingChanges))
          /\ SourceDone(<< Ev("breaking_alert", 0, p, TRUE, 0) >>)
       \/ /\ Fault(TRUE)
          /\ SourceCaught(<< Ev("breaking_alert", 0, p, FALSE, 0) >>)
          /\ UNCHANGED alerts
    /\ UNCHANGED << campaigns, performance_metrics, ai_decisions, today, hour, caller,
                    monitorLocals, engineLocals, metrics, ops, escaped, CONFIG,
                    knowledge_versions, retry >>

(***************************************************************************)
(* Time passes.                                                            *)
(***************************************************************************)
\* a pass lasts seconds: midnight falls between operations
AdvanceDay ==
    /\ pc = "Idle"
    /\ today < MaxDay
    /\ today' = today + 1
    /\ UNCHANGED << db, hour, pc, caller, passList, idx, campaignId, platformMetrics,
                    metrics, decisions, dIdx, dbCampaign, result, alertList, aIdx, trace,
                    ops, faults, escaped >>
    /\ UNCHANGED collaborators

(***************************************************************************)
(* The operation is over: scheduled() (or the direct caller) has its       *)
(* answer and the objects of the operation are dropped.                    *)
(***************************************************************************)
operation_end ==
    /\ pc = "Completed"
    /\ pc' = "Idle"
    /\ caller' = "none"
    /\ passList' = << >>
    /\ idx' = 0
    /\ campaignId' = 0
    /\ platformMetrics' = RespEmpty
    /\ metrics' = NoMetrics
    /\ decisions' = << >>
    /\ dIdx' = 0
    /\ dbCampaign' = NoCampaign
    /\ result' = NoResult
    /\ alertList' = << >>
    /\ aIdx' = 0
    /\ hour' = 0
    /\ trace' = << >>
    /\ updater' = NoUpdater
    /\ retry' = NoRetry
    /\ UNCHANGED << db, today, ops, faults, escaped, CONFIG, knowledge_versions >>

(***************************************************************************)
(* Specification.                                                          *)
(***************************************************************************)
MonitorStep ==
    \/ monitorAll_query
    \/ monitorCampaign_fetch
    \/ monitorCampaign_save
    \/ makeOptimizationDecision_evaluate
    \/ executeDecision_lookup
    \/ executeDecision_platform
    \/ executeDecision_log
    \/ checkAndCreateAlerts_evaluate
    \/ checkAndCreateAlerts_insert
    \/ operation_end

\* the worker: cron passes and campaign-creation requests
Next ==
    \/ monitorAll_start
    \/ MonitorStep
    \/ createCampaign
    \/ AdvanceDay

Spec == Init /\ [][Next]_vars

\* the scheduled handler alone: one cron pass after another
PassNext ==
    \/ monitorAll_start
    \/ MonitorStep

PassSpec == Init /\ [][PassNext]_vars

\* every external call eventually returns or throws
FairSpec == Init /\ [][PassNext]_vars /\ WF_vars(MonitorStep)

\* cron passes over a store that loses rows
DataErrorNext ==
    \/ PassNext
    \/ campaign_deleted

DataErrorSpec == Init /\ [][DataErrorNext]_vars

\* cron passes and direct calls of the engine: every way an action is
\* dispatched
DispatchNext ==
    \/ PassNext
    \/ makeOptimizationDecision_call

DispatchSpec == Init /\ [][DispatchNext]_vars

\* retryWithBackoff on its own; fn and the timer of sleep terminate
RetryStep ==
    \/ retryWithBackoff_attempt
    \/ retryWithBackoff_sleep
    \/ operation_end

RetryNext ==
    \/ retryWithBackoff_call
    \/ RetryStep

RetrySpec == Init /\ [][RetryNext]_vars /\ WF_vars(RetryStep)

\* the daily cron alone: one knowledge check after another
KnowledgeNext ==
    \/ checkForUpdates_start
    \/ checkSource_fetch
    \/ saveNewVersion_insert
    \/ saveNewVersion_store
    \/ checkSource_putHash
    \/ createBreakingChangeAlert
    \/ operation_end

KnowledgeSpec == Init /\ [][KnowledgeNext]_vars

\* AIEngine.makeOptimizationDecision on its own, handed metrics by a caller
EngineNext ==
    \/ makeOptimizationDecision_call
    \/ makeOptimizationDecision_evaluate
    \/ executeDecision_lookup
    \/ executeDecision_platform
    \/ executeDecision_log
    \/ operation_end

EngineSpec == Init /\ [][EngineNext]_vars

\* calculateMetrics on its own
HelperNext ==
    \/ calculateMetrics_call
    \/ operation_end

HelperSpec == Init /\ [][HelperNext]_vars

\* one call of makeOptimizationDecision, just entered with its arguments
EvaluatorInit ==
    /\ campaigns = InitialCampaigns
    /\ performance_metrics = {}
    /\ ai_decisions = << >>
    /\ alerts = << >>
    /\ today = 1
    /\ hour = 0
    /\ pc = "Evaluate"
    /\ caller = "api"
    /\ passList = << >>
    /\ idx = 0
    /\ campaignId \in {1, 2}
    /\ platformMetrics = RespEmpty
    /\ metrics \in EvaluatorInputs
    /\ decisions = << >>
    /\ dIdx = 0
    /\ dbCampaign = NoCampaign
    /\ result = NoResult
    /\ alertList = << >>
    /\ aIdx = 0
    /\ trace = << Ev("start", 0, "", TRUE, [decisions |-> 0, alerts |-> 0]) >>
    /\ ops = 1
    /\ faults = 0
    /\ escaped = FALSE
    /\ CONFIG = [k \in {Sources[n] : n \in 1..Len(Sources)} |-> NoHash]
    /\ knowledge_versions = << >>
    /\ updater = NoUpdater
    /\ retry = NoRetry

EvaluatorNext ==
    \/ makeOptimizationDecision_evaluate
    \/ executeDecision_lookup
    \/ executeDecision_platform
    \/ executeDecision_log
    \/ operation_end

EvaluatorSpec == EvaluatorInit /\ [][EvaluatorNext]_vars

\* metrics on and beyond the threshold of every alert rule
AlertInputs ==
    EvaluatorInputs \cup
    { [m EXCEPT !.spend = Num(f)] : m \in MetricsGrid, f \in {90, 95} }

\* one call of checkAndCreateAlerts(campaign, metrics), just entered with its
\* arguments
AlertInit ==
    /\ campaigns = InitialCampaigns
    /\ performance_metrics = {}
    /\ ai_decisions = << >>
    /\ alerts = << >>
    /\ today = 1
    /\ hour = 0
    /\ pc = "Alert"
    /\ caller = "api"
    /\ \E id \in {1, 2} : passList = << InitialCampaigns[id] >>
    /\ idx = 1
    /\ campaignId = 0
    /\ platformMetrics = RespEmpty
    /\ metrics \in AlertInputs
    /\ decisions = << >>
    /\ dIdx = 0
    /\ dbCampaign = NoCampaign
    /\ result = NoResult
    /\ alertList = << >>
    /\ aIdx = 0
    /\ trace = << Ev("start", 0, "", TRUE, [decisions |-> 0, alerts |-> 0]) >>
    /\ ops = 1
    /\ faults = 0
    /\ escaped = FALSE
    /\ CONFIG = [k \in {Sources[n] : n \in 1..Len(Sources)} |-> NoHash]
    /\ knowledge_versions = << >>
    /\ updater = NoUpdater
    /\ retry = NoRetry

AlertNext ==
    \/ checkAndCreateAlerts_evaluate
    \/ checkAndCreateAlerts_insert
    \/ operation_end

AlertSpec == AlertInit /\ [][AlertNext]_vars

(***************************************************************************)
(* Reading the history of the running operation.                           *)
(***************************************************************************)
Steps == 1..Len(trace)
PassOver == pc = "Completed" /\ caller = "monitor"
CallOver == pc = "Completed" /\ caller = "api"

\* a call to a platform adapter made for campaign c threw
PlatformCallThrewFor(c) ==
    \E i \in Steps : trace[i].cid = c /\ trace[i].ev \in {"fetch", "adapter"} /\ ~trace[i].ok

\* no step made for campaign c failed
NoFailureFor(c) == \A i \in Steps : trace[i].cid = c => trace[i].ok

\* rows inserted into ai_decisions / alerts since the operation started
NewDecisions == SubSeq(ai_decisions, trace[1].data.decisions + 1, Len(ai_decisions))
NewAlerts == SubSeq(alerts, trace[1].data.alerts + 1, Len(alerts))

\* the snapshot written for campaign c in this pass is in the table
SnapshotPersisted(c) ==
    \E i \in Steps : /\ trace[i].ev = "save" /\ trace[i].cid = c /\ trace[i].ok
                     /\ trace[i].data.row \in performance_metrics

\* the alert rules were evaluated for campaign c and every alert they gave
\* was inserted
AlertsPersisted(c) ==
    \E i \in Steps :
        /\ trace[i].ev = "alerts" /\ trace[i].cid = c
        /\ \A k \in 1..Len(trace[i].data) :
              /\ \E j \in Steps : /\ j > i /\ trace[j].ev = "alert" /\ trace[j].cid = c
                                  /\ trace[j].kind = trace[i].data[k].type /\ trace[j].ok
              /\ \E n \in 1..Len(NewAlerts) : NewAlerts[n] = AlertRow(c, trace[i].data[k])

\* the platform's answer fetched for campaign c in this pass
Fetched(c) ==
    LET i == CHOOSE i \in Steps : trace[i].ev = "fetch" /\ trace[i].cid = c /\ trace[i].ok
    IN  trace[i].data

\* the decisions the evaluator gave in this operation, and the hour it read
Evaluated(c) ==
    LET i == CHOOSE i \in Steps : trace[i].ev = "evaluate" /\ trace[i].cid = c
    IN  trace[i].data

CountSteps(ev, c, kind) ==
    Cardinality({i \in Steps : trace[i].ev = ev /\ trace[i].cid = c /\ trace[i].kind = kind})
CountRows(rows, c, kind) ==
    Cardinality({n \in 1..Len(rows) : rows[n].campaign_id = c /\ rows[n].decision_type = kind})

DecisionTypes ==
    {"bid_adjustment", "budget_reallocation", "creative_refresh", "pacing_adjustment",
     "pause_campaign"}
MutatingTypes == {"bid_adjustment", "budget_reallocation", "pause_campaign"}

(***************************************************************************)
(* Claims.                                                                 *)
(***************************************************************************)

\* C1: in one pass over [A, B], when a platform adapter call made for A
\* throws (getCampaignMetrics or executeDecision) and none of B's own steps
\* fails, B's snapshot is persisted and B's alerts are evaluated and inserted.
C1_FailureOfOneCampaignSparesTheNext ==
    PassOver =>
        \A a, b \in 1..Len(passList) :
            ( /\ a < b
              /\ PlatformCallThrewFor(passList[a].id)
              /\ NoFailureFor(passList[b].id) )
            => /\ SnapshotPersisted(passList[b].id)
               /\ AlertsPersisted(passList[b].id)

\* the pass over [1, 2] is over, executeDecision threw for campaign 1 and
\* campaign 2 has its snapshot and its alert
C1_Witness ==
    /\ PassOver
    /\ Len(passList) = 2
    /\ \E i \in Steps : trace[i].ev = "adapter" /\ trace[i].cid = passList[1].id /\ ~trace[i].ok
    /\ SnapshotPersisted(passList[2].id)
    /\ AlertsPersisted(passList[2].id)
    /\ \E i \in Steps : trace[i].ev = "alert" /\ trace[i].cid = passList[2].id /\ trace[i].ok

\* C2: no exception ever leaves monitorAll, and every pass (every operation)
\* that started comes back to Idle, whatever fails on the way.
C2_PassEndsIdle == [](~escaped) /\ ((pc # "Idle") ~> (pc = "Idle"))

\* a pass is over whose campaign query threw
C2_Witness ==
    /\ PassOver
    /\ \E i \in Steps : trace[i].ev = "query" /\ ~trace[i].ok

\* C3: when the platform call of one of several emitted actions fails, every
\* action emitted for the campaign is still dispatched and logged.
C3_RemainingActionsDispatched ==
    ( /\ pc = "Completed"
      /\ \E i \in Steps : trace[i].ev = "adapter" /\ trace[i].data.result.failed )
    => \A i \in Steps :
          trace[i].ev = "evaluate" =>
             \A k \in 1..Len(trace[i].data.decisions) :
                LET t == trace[i].data.decisions[k].type IN
                /\ CountSteps("adapter", trace[i].cid, t) = 1
                /\ \E j \in Steps : /\ trace[j].ev = "ledger" /\ trace[j].cid = trace[i].cid
                                    /\ trace[j].kind = t /\ trace[j].ok

\* C4: whenever the platform call of a dispatched action fails (no response,
\* or an error response), a ledger record of that action says success = false.
C4_FailedCallLoggedUnsuccessful ==
    pc = "Completed" =>
        \A i \in Steps :
            (trace[i].ev = "adapter" /\ trace[i].data.result.failed) =>
                \E n \in 1..Len(NewDecisions) :
                    /\ NewDecisions[n].campaign_id = trace[i].cid
                    /\ NewDecisions[n].decision_type = trace[i].kind
                    /\ \/ NewDecisions[n].success = "false"
                       \/ NewDecisions[n].action_taken.result.success = "false"

\* C5: at the end of the operation every action an adapter's executeDecision
\* was invoked for has exactly one ledger record (campaign, type, reason).
C5_OneLedgerRecordPerAdapterCall ==
    pc = "Completed" =>
        \A i \in Steps :
            trace[i].ev = "adapter" =>
                /\ CountRows(NewDecisions, trace[i].cid, trace[i].kind)
                     = CountSteps("adapter", trace[i].cid, trace[i].kind)
                /\ \A n \in 1..Len(NewDecisions) :
                      ( /\ NewDecisions[n].campaign_id = trace[i].cid
                        /\ NewDecisions[n].decision_type = trace[i].kind )
                      => LET ds == Evaluated(trace[i].cid).decisions IN
                         \E k \in 1..Len(ds) :
                            /\ ds[k].type = trace[i].kind
                            /\ NewDecisions[n].reason = ds[k].reason
                            /\ NewDecisions[n].action_taken.decision = ds[k]

\* C6: ai_decisions is append-only: a step keeps every row there is, with
\* its reason, action_taken and metrics_before, and never removes a row.
C6_LedgerAppendOnly ==
    [][ /\ Len(ai_decisions') >= Len(ai_decisions)
        /\ \A n \in 1..Len(ai_decisions) :
              /\ ai_decisions'[n].campaign_id = ai_decisions[n].campaign_id
              /\ ai_decisions'[n].decision_type = ai_decisions[n].decision_type
              /\ ai_decisions'[n].reason = ai_decisions[n].reason
              /\ ai_decisions'[n].action_taken = ai_decisions[n].action_taken
              /\ ai_decisions'[n].metrics_before = ai_decisions[n].metrics_before ]_vars

\* the ledger holds the record of a campaign creation and, after it, the
\* record of a decision of a monitoring pass
C6_Witness ==
    \E m, n \in 1..Len(ai_decisions) :
        /\ m < n
        /\ ai_decisions[m].decision_type = "campaign_creation"
        /\ ai_decisions[n].decision_type = "bid_adjustment"

\* C7: performance_metrics holds at most one row per (campaign_id, date),
\* and after a snapshot write of the running pass that row is the one written.
C7_OneSnapshotPerCampaignAndDay ==
    /\ \A r1, r2 \in performance_metrics :
          (r1.campaign_id = r2.campaign_id /\ r1.date = r2.date) => r1 = r2
    /\ \A i \in Steps :
          (trace[i].ev = "save" /\ trace[i].ok) =>
             {r \in performance_metrics :
                 r.campaign_id = trace[i].cid /\ r.date = trace[i].data.row.date}
               = {trace[i].data.row}

\* a snapshot was written over a row of the same campaign and day that held
\* other values
C7_Witness ==
    \E i \in Steps :
        /\ trace[i].ev = "save" /\ trace[i].ok
        /\ trace[i].data.before # {}
        /\ trace[i].data.before # {trace[i].data.row}
        /\ trace[i].data.row \in performance_metrics

\* C8: an adapter's executeDecision is invoked for bid_adjustment,
\* budget_reallocation and pause_campaign actions only; for an advisory
\* action (creative_refresh, pacing_adjustment) no adapter method is invoked.
C8_AdvisoryActionsNotDispatched ==
    \A i \in Steps : trace[i].ev = "adapter" => trace[i].kind \in MutatingTypes

\* C9: the snapshot row of a campaign processed in the pass holds the
\* impressions, clicks, conversions and spend the adapter returned (0 for a
\* missing or unparseable one) and the KPIs derived from them.
C9_SnapshotHoldsFetchedCounters ==
    \A i \in Steps :
        (trace[i].ev = "save" /\ trace[i].ok) =>
            LET c == RawCounters(Fetched(trace[i].cid))
                k == calculateMetrics(c)
            IN  \A r \in performance_metrics :
                  (r.campaign_id = trace[i].cid /\ r.date = trace[i].data.row.date) =>
                     /\ r.impressions = c.impressions
                     /\ r.clicks = c.clicks
                     /\ r.conversions = c.conversions
                     /\ r.spend = c.spend
                     /\ r.ctr = k.ctr /\ r.cpc = k.cpc /\ r.cpl = k.cpl
                     /\ r.cpa = k.cpa /\ r.roas = k.roas

\* C10: for a campaign whose pipeline ran to its end, every decision rule and
\* alert rule whose trigger holds on the fetched counters, the derived KPIs
\* and the daily budget has fired.
C10_TriggeredRulesFire ==
    \A i \in Steps :
        trace[i].ev = "done" =>
            LET id == trace[i].cid
                c == RawCounters(Fetched(id))
                k == calculateMetrics(c)
                budget == Num(campaigns[id].daily_budget)
                e == Evaluated(id)
                Decided(t) == \E n \in 1..Len(e.decisions) : e.decisions[n].type = t
                Alerted(t) == \E n \in 1..Len(NewAlerts) :
                                 NewAlerts[n].campaign_id = id /\ NewAlerts[n].alert_type = t
            IN  /\ GT(k.cpl, Num(CplTarget)) => Decided("bid_adjustment") /\ Alerted("high_cpl")
                /\ (LT(k.roas, Num(RoasTarget)) /\ GT(c.conversions, Num(MinConversions)))
                      => Decided("budget_reallocation") /\ Alerted("low_roas")
                /\ (LT(k.ctr, Num(CtrFloor)) /\ GT(c.impressions, Num(MinImpressions)))
                      => Decided("creative_refresh")
                /\ (GT(c.spend, Mul(budget, PacingShare)) /\ e.hour \in Hours /\ e.hour < NoonHour)
                      => Decided("pacing_adjustment")
                /\ GT(c.spend, Mul(budget, BudgetAlertShare)) => Alerted("budget_exceeded")

(***************************************************************************)
(* Comparisons of a number with an integer, as the rules are stated.       *)
(***************************************************************************)
Above(x, k) == x.d > 0 /\ x.n > k * x.d
Below(x, k) == x.d > 0 /\ x.n < k * x.d
Has(m, f) == f \in DOMAIN m

\* the actions the four rules call for on metrics m at hour h, in the order
\* of the rules
ExpectedTypes(m, h) ==
    (IF Has(m, "cpl") /\ Above(m.cpl, 50) THEN << "bid_adjustment" >> ELSE << >>)
    \o (IF /\ Has(m, "roas") /\ Below(m.roas, 2)
            /\ Has(m, "conversions") /\ Above(m.conversions, 10)
        THEN << "budget_reallocation" >> ELSE << >>)
    \o (IF /\ Has(m, "ctr") /\ Below(m.ctr, 1)
            /\ Has(m, "impressions") /\ Above(m.impressions, 1000)
        THEN << "creative_refresh" >> ELSE << >>)
    \o (IF /\ Has(m, "spend") /\ Has(m, "dailyBudget")
            /\ m.spend.d > 0 /\ m.dailyBudget.d > 0
            /\ 10 * m.spend.n * m.dailyBudget.d > 8 * m.dailyBudget.n * m.spend.d
            /\ h < 12
        THEN << "pacing_adjustment" >> ELSE << >>)

\* C11: the evaluator returns exactly the actions whose triggers hold, in the
\* order bid_adjustment, budget_reallocation, creative_refresh,
\* pacing_adjustment, each at most once and with a reason; comparisons are
\* strict; {cpl 60, roas 1.5, conversions 15, ctr 0.5, impressions 2000,
\* spend 85, dailyBudget 100} at hour 9 gives the four of them.
C11_EvaluatorReturnsTriggeredRules ==
    \A i \in Steps :
        trace[i].ev = "evaluate" =>
            LET ds == trace[i].data.decisions
                h == trace[i].data.hour
            IN  /\ [k \in 1..Len(ds) |-> ds[k].type] = ExpectedTypes(metrics, h)
                /\ \A k \in 1..Len(ds) : ds[k].reason # << >> /\ ds[k].reason[1] # ""
                /\ (metrics = MetricsAllRules /\ h = 9) =>
                       [k \in 1..Len(ds) |-> ds[k].type] =
                          << "bid_adjustment", "budget_reallocation", "creative_refresh",
                             "pacing_adjustment" >>

\* the evaluator was given the metrics on which every rule fires, at 9
C11_Witness ==
    \E i \in Steps :
        /\ trace[i].ev = "evaluate"
        /\ metrics = MetricsAllRules
        /\ trace[i].data.hour = 9
        /\ Len(trace[i].data.decisions) = 4

\* the counters fetched for campaign id in this pass, the KPIs derived from
\* them and the campaign's daily budget
FetchedMetrics(id) ==
    LET c == RawCounters(Fetched(id))
        k == calculateMetrics(c)
    IN  [ impressions |-> c.impressions, clicks |-> c.clicks, spend |-> c.spend,
          conversions |-> c.conversions, ctr |-> k.ctr, cpc |-> k.cpc, cpl |-> k.cpl,
          cpa |-> k.cpa, roas |-> k.roas, dailyBudget |-> Num(campaigns[id].daily_budget) ]

\* some alert rule's trigger holds on metrics m
AlertTriggered(m) ==
    \/ Above(m.cpl, 50)
    \/ Below(m.roas, 2) /\ Above(m.conversions, 10)
    \/ m.spend.d > 0 /\ 10 * m.spend.n * m.dailyBudget.d > 9 * m.dailyBudget.n * m.spend.d

\* C12: when no trigger holds on a campaign's metrics, the evaluator emits no
\* action and the alert evaluator no alert: no executeDecision call is made
\* and no ai_decisions or alerts row is written for the campaign in the pass.
C12_NoTriggerNoActionNoAlert ==
    \A i \in Steps :
        (trace[i].ev = "evaluate" /\ caller = "monitor") =>
            LET id == trace[i].cid
                m == FetchedMetrics(id)
            IN  (ExpectedTypes(m, trace[i].data.hour) = << >> /\ ~AlertTriggered(m)) =>
                    /\ trace[i].data.decisions = << >>
                    /\ \A j \in Steps :
                          trace[j].cid = id =>
                             /\ trace[j].ev \notin {"lookup", "adapter", "ledger", "alert"}
                             /\ trace[j].ev = "alerts" => trace[j].data = << >>
                    /\ \A n \in 1..Len(NewDecisions) : NewDecisions[n].campaign_id # id
                    /\ \A n \in 1..Len(NewAlerts) : NewAlerts[n].campaign_id # id

\* a campaign whose platform answered with counters on which no trigger
\* holds went through its whole pipeline
C12_Witness ==
    \E i, j \in Steps :
        /\ trace[i].ev = "fetch" /\ trace[i].ok /\ trace[i].data = RespHealthy
        /\ trace[j].ev = "done" /\ trace[j].cid = trace[i].cid

\* x is a finite number >= 0
NonNegative(x) == x.d > 0 /\ x.n >= 0
\* x = (a / b) * k for numbers a, b with b > 0
IsRatio(x, a, b, k) == x.d > 0 /\ x.n * (b.n * a.d) = x.d * (k * a.n * b.d)

\* C13: for non-negative counters calculateMetrics returns non-negative KPIs
\* that follow the guarded formulas (0 when the denominator is 0), and cpl
\* equals cpa.
C13_GuardedKpis ==
    \A i \in Steps :
        trace[i].ev = "calculate" =>
            LET d == trace[i].data.data
                k == trace[i].data.metrics
            IN  /\ \A f \in {"ctr", "cpc", "cpl", "cpa", "roas", "conversionRate"} :
                      f \in DOMAIN k /\ NonNegative(k[f])
                /\ IF d.impressions.n = 0 THEN k.ctr = Num(0)
                    ELSE IsRatio(k.ctr, d.clicks, d.impressions, 100)
                /\ IF d.clicks.n = 0 THEN k.cpc = Num(0) /\ k.conversionRate = Num(0)
                    ELSE /\ IsRatio(k.cpc, d.spend, d.clicks, 1)
                         /\ IsRatio(k.conversionRate, d.conversions, d.clicks, 100)
                /\ IF d.conversions.n = 0 THEN k.cpl = Num(0) /\ k.cpa = Num(0)
                    ELSE IsRatio(k.cpl, d.spend, d.conversions, 1)
                /\ IF d.spend.n = 0 THEN k.roas = Num(0)
                    ELSE IsRatio(k.roas, d.revenue, d.spend, 1)
                /\ k.cpl = k.cpa

\* calculateMetrics was given clicks and revenue without impressions,
\* conversions or spend
C13_Witness ==
    \E i \in Steps :
        /\ trace[i].ev = "calculate"
        /\ trace[i].data.data.impressions = Num(0)
        /\ trace[i].data.data.conversions = Num(0)
        /\ trace[i].data.data.spend = Num(0)
        /\ trace[i].data.data.clicks = Num(10)
        /\ trace[i].data.data.revenue = Num(100)
        /\ trace[i].data.metrics.roas = Num(0)

\* C14: the result of calculateMetrics holds the five input counters
\* unchanged beside the six KPIs.
C14_NormalizerKeepsCounters ==
    \A i \in Steps :
        trace[i].ev = "calculate" =>
            \A f \in {"impressions", "clicks", "spend", "conversions", "revenue"} :
                /\ f \in DOMAIN trace[i].data.metrics
                /\ trace[i].data.metrics[f] = trace[i].data.data[f]

\* C15: an adapter's executeDecision never throws, whatever the platform
\* answers or fails to answer, and for a type other than bid_adjustment,
\* budget_reallocation and pause_campaign it returns success = false.
C15_AdaptersNeverThrow ==
    \A i \in Steps :
        trace[i].ev = "adapter" =>
            /\ ~trace[i].data.result.threw
            /\ trace[i].kind \notin MutatingTypes => trace[i].data.result.success = "false"

\* C16: on Meta, executeDecision of a bid_adjustment returns success = true
\* without sending a request, so the platform campaign is left as it was.
C16_MetaBidAdjustmentNoOp ==
    \A i \in Steps :
        ( /\ trace[i].ev = "adapter"
          /\ trace[i].data.platform = "meta"
          /\ trace[i].kind = "bid_adjustment" )
        => /\ ~trace[i].data.result.threw
           /\ trace[i].data.result.success = "true"
           /\ trace[i].data.result.requests = 0
           /\ ~trace[i].data.result.failed

\* a bid_adjustment was dispatched for the Meta campaign and logged
C16_Witness ==
    \E i, j \in Steps :
        /\ trace[i].ev = "adapter" /\ trace[i].data.platform = "meta"
        /\ trace[i].kind = "bid_adjustment"
        /\ j > i /\ trace[j].ev = "ledger" /\ trace[j].cid = trace[i].cid /\ trace[j].ok

\* rows and steps of the running pass that concern campaign id: none, but
\* for the ledger record of its creation
Untouched(id) ==
    /\ \A r \in performance_metrics : r.campaign_id # id
    /\ \A n \in 1..Len(alerts) : alerts[n].campaign_id # id
    /\ \A n \in 1..Len(ai_decisions) :
          ai_decisions[n].campaign_id = id => ai_decisions[n].decision_type = "campaign_creation"
    /\ \A k \in 1..Len(passList) : passList[k].id # id
    /\ caller = "monitor" => \A i \in Steps : trace[i].cid # id

\* C17: a pass touches active campaigns only: for a paused or archived
\* campaign no platform call is made and no snapshot, decision or alert row
\* is written.
C17_OnlyActiveCampaignsTouched ==
    \A id \in DOMAIN campaigns : campaigns[id].status # "active" => Untouched(id)

\* a pass went through both active campaigns while a paused and an archived
\* one were in the table
C17_Witness ==
    /\ PassOver
    /\ Len(passList) = 2
    /\ SnapshotPersisted(passList[1].id)
    /\ SnapshotPersisted(passList[2].id)
    /\ campaigns[3].status = "paused"
    /\ campaigns[4].status = "archived"

\* C18: a campaign created through createCampaign is stored paused, no pass
\* processes it, and no step of the system changes the status of a campaign.
C18_CreatedCampaignStaysPaused ==
    /\ [](\A id \in DOMAIN campaigns \ DOMAIN InitialCampaigns :
             campaigns[id].status = "paused" /\ Untouched(id))
    /\ [][\A id \in DOMAIN campaigns :
             id \in DOMAIN campaigns' /\ campaigns'[id].status = campaigns[id].status]_vars

\* a pass ran to its end over the active campaigns after a campaign had
\* been created
C18_Witness ==
    /\ PassOver
    /\ DOMAIN campaigns # DOMAIN InitialCampaigns
    /\ trace[1].data.decisions >= 1
    /\ ai_decisions[1].decision_type = "campaign_creation"
    /\ Len(passList) = 2
    /\ SnapshotPersisted(passList[2].id)

\* C19: alerts do not depend on the dispatch of actions: for a campaign
\* whose snapshot was persisted and whose only failure in the pass, if any,
\* is that of the platform call of one of its actions, the alert rules are
\* evaluated and every triggered alert is inserted.
C19_AlertsIndependentOfDispatch ==
    PassOver =>
        \A i \in Steps :
            ( /\ trace[i].ev = "save" /\ trace[i].ok
              /\ \A j \in Steps :
                    (trace[j].cid = trace[i].cid /\ ~trace[j].ok) =>
                        trace[j].ev \in {"adapter", "error"} )
            => AlertsPersisted(trace[i].cid)

\* C20: alerts are never deduplicated: at the end of a pass every alert a
\* campaign's rules gave is one new row of alerts, whatever rows were there
\* before, and no step changes or removes a row of alerts.
C20_AlertsNeverDeduplicated ==
    /\ [](PassOver =>
            \A i \in Steps :
                (trace[i].ev = "alerts" /\ NoFailureFor(trace[i].cid)) =>
                    \A k \in 1..Len(trace[i].data) :
                        Cardinality({n \in 1..Len(NewAlerts) :
                                        NewAlerts[n] = AlertRow(trace[i].cid, trace[i].data[k])}) = 1)
    /\ [][ /\ Len(alerts') >= Len(alerts)
           /\ \A n \in 1..Len(alerts) : alerts'[n] = alerts[n] ]_vars

\* a pass inserted an alert for a campaign that already had the same alert,
\* unresolved, from an earlier pass
C20_Witness ==
    /\ PassOver
    /\ \E m \in 1..trace[1].data.alerts, n \in 1..Len(NewAlerts) :
          /\ alerts[m] = NewAlerts[n]
          /\ alerts[m].resolved = 0

\* the severity the alert rules give to each alert type
SeverityOf(t) ==
    CASE t = "high_cpl" -> "warning"
      [] t = "low_roas" -> "critical"
      [] t = "budget_exceeded" -> "info"
      [] OTHER -> "none"

\* C21: every alert row written by checkAndCreateAlerts has the severity of
\* its rule (high_cpl warning, low_roas critical, budget_exceeded info),
\* carries the id of the campaign being processed and is unresolved.
C21_AlertRowsHaveFixedSeverity ==
    \A n \in 1..Len(alerts) :
        /\ alerts[n].alert_type \in {"high_cpl", "low_roas", "budget_exceeded"}
        /\ alerts[n].severity = SeverityOf(alerts[n].alert_type)
        /\ alerts[n].resolved = 0
        /\ caller = "api" => alerts[n].campaign_id = passList[1].id

\* the three alerts were written for one campaign
C21_Witness ==
    /\ pc = "Completed"
    /\ Len(alerts) = 3
    /\ {alerts[n].alert_type : n \in 1..3} = {"high_cpl", "low_roas", "budget_exceeded"}
    /\ \A n \in 1..3 : alerts[n].campaign_id = 2

\* the alert types the rules gave in this call
AlertTypes == {alertList[k].type : k \in 1..Len(alertList)}
AlertsEvaluated == \E i \in Steps : trace[i].ev = "alerts"
\* some hour at which the decision rules emit type t on the metrics
RuleFires(t) ==
    \E h \in Hours : \E k \in 1..Len(EvaluateRules(metrics, h)) :
        EvaluateRules(metrics, h)[k].type = t

\* C22 as stated: the alert triggers are the decision rules' conditions on
\* the same campaign and metrics; the budget alert fires exactly when
\* spend > 0.8 x daily budget.
C22_AlertTriggersMirrorDecisionRules ==
    AlertsEvaluated =>
        /\ "high_cpl" \in AlertTypes <=> (Above(metrics.cpl, 50) /\ RuleFires("bid_adjustment"))
        /\ "low_roas" \in AlertTypes <=>
              (Below(metrics.roas, 2) /\ Above(metrics.conversions, 10)
               /\ RuleFires("budget_reallocation"))
        /\ "budget_exceeded" \in AlertTypes <=>
              10 * metrics.spend.n > 8 * passList[1].daily_budget * metrics.spend.d

\* C22 amended: the high-CPL and low-ROAS alerts fire exactly when
\* bid_adjustment and budget_reallocation do; the budget alert fires exactly
\* when spend > 0.9 x the campaign's daily budget, whatever the hour.
C22_BudgetAlertAtNineTenths ==
    AlertsEvaluated =>
        /\ "high_cpl" \in AlertTypes <=> (Above(metrics.cpl, 50) /\ RuleFires("bid_adjustment"))
        /\ "low_roas" \in AlertTypes <=>
              (Below(metrics.roas, 2) /\ Above(metrics.conversions, 10)
               /\ RuleFires("budget_reallocation"))
        /\ "budget_exceeded" \in AlertTypes <=>
              10 * metrics.spend.n > 9 * passList[1].daily_budget * metrics.spend.d

\* the rules were evaluated on a spend of 85 of a budget of 100, above 0.8
\* and below 0.9 of it: the high-CPL alert is given, the budget alert is not
C22_Witness ==
    /\ AlertsEvaluated
    /\ metrics.spend = Num(85)
    /\ passList[1].daily_budget = 100
    /\ "budget_exceeded" \notin AlertTypes
    /\ "high_cpl" \in AlertTypes

\* position of campaign c in the list the query returned
Pos(c) == CHOOSE k \in 1..Len(passList) : passList[k].id = c
\* the steps made for a campaign: platform calls and store writes included
CampaignSteps == {i \in Steps : trace[i].cid # 0}
Finished(i) == trace[i].ev \in {"done", "error"}

\* C23: the campaigns of a pass are processed one after another in the order
\* the store returned them (rowid order): no step for a campaign is made
\* before the sub-pipeline of the campaign before it has finished, completed
\* or failed, and at most one sub-pipeline is unfinished at any time.
C23_CampaignsProcessedSequentially ==
    caller = "monitor" =>
        /\ \A a, b \in 1..Len(passList) : a < b => passList[a].id < passList[b].id
        /\ \A i, j \in CampaignSteps :
              i < j => Pos(trace[i].cid) <= Pos(trace[j].cid)
        /\ \A i, j \in CampaignSteps :
              (i < j /\ trace[i].cid # trace[j].cid) =>
                  \E k \in i..(j - 1) : trace[k].cid = trace[i].cid /\ Finished(k)
        /\ \A i \in CampaignSteps :
              (~ \E k \in CampaignSteps : trace[k].cid = trace[i].cid /\ Finished(k)) =>
                  /\ pc \notin {"Idle", "Completed", "FetchingCampaigns"}
                  /\ passList[idx].id = trace[i].cid

\* a pass over two campaigns is over: the first one's snapshot was written
\* and its action dispatched before the second one's metrics were fetched
C23_Witness ==
    /\ PassOver
    /\ Len(passList) = 2
    /\ \E i, j, k \in Steps :
          /\ i < j /\ j < k
          /\ trace[i].ev = "save" /\ trace[i].cid = passList[1].id /\ trace[i].ok
          /\ trace[j].ev = "adapter" /\ trace[j].cid = passList[1].id
          /\ trace[k].ev = "fetch" /\ trace[k].cid = passList[2].id

\* the place of a step in the sub-pipeline of a campaign
Rank(ev) ==
    CASE ev = "fetch" -> 1
      [] ev = "normalize" -> 2
      [] ev = "save" -> 3
      [] ev = "evaluate" -> 4
      [] ev \in {"lookup", "adapter", "ledger"} -> 5
      [] ev \in {"alerts", "alert"} -> 6
      [] OTHER -> 7
\* a step ev (of kind k when k is not "") was made for the campaign of step j
\* before it, and returned
Earlier(j, ev, k) ==
    \E i \in 1..(j - 1) :
        /\ trace[i].ev = ev /\ trace[i].cid = trace[j].cid /\ trace[i].ok
        /\ k # "" => trace[i].kind = k

\* C24: the steps of a campaign's sub-pipeline occur in the order fetch,
\* normalize, save the snapshot, evaluate, dispatch, alerts, none of them
\* before the one it follows returned: the snapshot is written before any
\* action is dispatched and stays in the table when dispatch fails, the
\* ledger record of an action is written after its platform call returned,
\* and alerts are inserted after every action of the campaign was dispatched.
C24_StepsInPipelineOrder ==
    caller = "monitor" =>
        /\ \A i, j \in CampaignSteps :
              (i < j /\ trace[i].cid = trace[j].cid) => Rank(trace[i].ev) <= Rank(trace[j].ev)
        /\ \A j \in CampaignSteps :
              /\ trace[j].ev = "normalize" => Earlier(j, "fetch", "")
              /\ trace[j].ev = "save" => Earlier(j, "normalize", "")
              /\ trace[j].ev = "evaluate" => Earlier(j, "save", "")
              /\ trace[j].ev = "lookup" => Earlier(j, "evaluate", "")
              /\ trace[j].ev = "adapter" =>
                    Earlier(j, "save", "") /\ Earlier(j, "lookup", trace[j].kind)
              /\ trace[j].ev = "ledger" => Earlier(j, "adapter", trace[j].kind)
              /\ trace[j].ev = "alerts" =>
                    /\ Earlier(j, "evaluate", "")
                    /\ \A k \in 1..Len(Evaluated(trace[j].cid).decisions) :
                          Earlier(j, "ledger", Evaluated(trace[j].cid).decisions[k].type)
              /\ trace[j].ev = "alert" => Earlier(j, "alerts", "")
              /\ (trace[j].ev \in {"lookup", "adapter", "ledger"} /\ ~trace[j].ok) =>
                    SnapshotPersisted(trace[j].cid)

\* a pass is over in which one campaign went through every step and the
\* platform call of another one's action failed after its snapshot was saved
C24_Witness ==
    /\ PassOver
    /\ \E c \in {passList[k].id : k \in 1..Len(passList)} :
          /\ NoFailureFor(c)
          /\ \E i \in Steps : trace[i].ev = "ledger" /\ trace[i].cid = c
          /\ \E i \in Steps : trace[i].ev = "alert" /\ trace[i].cid = c
          /\ \E i \in Steps : trace[i].ev = "done" /\ trace[i].cid = c
    /\ \E i \in Steps : trace[i].ev = "adapter" /\ ~trace[i].ok
                        /\ SnapshotPersisted(trace[i].cid)

\* the lookup of executeDecision found no row for the campaign of step i
RowMissingAt(i) ==
    /\ trace[i].ev = "lookup" /\ ~trace[i].ok
    /\ i < Len(trace) /\ trace[i + 1].ev = "error" /\ trace[i + 1].kind = "not_found"

\* C25: when the campaign row is missing at the dispatch of an action, the
\* error is raised before any platform call and any ledger record for that
\* action; no further step is made for that campaign, and the campaigns
\* after it in the pass are processed.
C25_MissingRowAbortsOneCampaign ==
    PassOver =>
        \A i \in Steps :
            RowMissingAt(i) =>
                LET c == trace[i].cid IN
                /\ ~ \E j \in Steps : /\ trace[j].cid = c /\ trace[j].kind = trace[i].kind
                                      /\ trace[j].ev \in {"adapter", "ledger"}
                /\ ~ \E n \in 1..Len(NewDecisions) :
                        /\ NewDecisions[n].campaign_id = c
                        /\ NewDecisions[n].decision_type = trace[i].kind
                /\ \A j \in Steps : (j > i + 1) => trace[j].cid # c
                /\ \A k \in 1..Len(passList) :
                      k > Pos(c) => \E j \in Steps : /\ j > i + 1
                                                     /\ trace[j].ev = "fetch"
                                                     /\ trace[j].cid = passList[k].id
                /\ ~escaped

\* the row of the first of two campaigns was gone when its action was
\* dispatched, and the second campaign went through its sub-pipeline
C25_Witness ==
    /\ PassOver
    /\ Len(passList) = 2
    /\ \E i \in Steps : RowMissingAt(i) /\ trace[i].cid = passList[1].id
    /\ passList[1].id \notin DOMAIN campaigns
    /\ \E j \in Steps : trace[j].ev = "done" /\ trace[j].cid = passList[2].id

\* C26: the monitoring loop never retries: in one pass getCampaignMetrics is
\* called at most once per campaign and each action of a campaign is handed
\* to the platform adapter at most once, also when the call fails, and no
\* attempt or wait of retryWithBackoff is made.
C26_NoRetryInPass ==
    caller = "monitor" =>
        /\ \A i, j \in Steps :
              ( /\ trace[i].ev \in {"fetch", "adapter"} /\ trace[j].ev = trace[i].ev
                /\ trace[i].cid = trace[j].cid /\ trace[i].kind = trace[j].kind ) => i = j
        /\ \A i \in Steps : trace[i].ev \notin {"attempt", "sleep"}

\* a pass is over in which a call of getCampaignMetrics or of an adapter's
\* executeDecision failed
C26_Witness ==
    /\ PassOver
    /\ \E i \in Steps : trace[i].ev \in {"fetch", "adapter"} /\ ~trace[i].ok
    /\ \E i \in Steps : trace[i].ev = "done"

\* the rows of a table (a set) that belong to other campaigns than c
OthersIn(rows, c) == {r \in rows : r.campaign_id # c}
\* the rows of a table (a sequence) that belong to other campaigns than c
OthersAt(rows, c) == {n \in 1..Len(rows) : rows[n].campaign_id # c}

\* C27: while campaign c is processed, every step leaves the snapshot,
\* decision and alert rows of the other campaigns as they are and writes
\* rows of campaign c only.
C27_WritesOnlyOwnRows ==
    [][ (caller = "monitor" /\ idx \in 1..Len(passList)) =>
            LET c == passList[idx].id IN
            /\ OthersIn(performance_metrics', c) = OthersIn(performance_metrics, c)
            /\ Len(ai_decisions') >= Len(ai_decisions)
            /\ \A n \in 1..Len(ai_decisions) : ai_decisions'[n] = ai_decisions[n]
            /\ OthersAt(ai_decisions', c) = OthersAt(ai_decisions, c)
            /\ Len(alerts') >= Len(alerts)
            /\ \A n \in 1..Len(alerts) : alerts'[n] = alerts[n]
            /\ OthersAt(alerts', c) = OthersAt(alerts, c) ]_vars

\* the second campaign of a pass wrote its snapshot, decision and alert
\* while those of the first one were in the tables
C27_Witness ==
    /\ PassOver
    /\ Len(passList) = 2
    /\ \A c \in {passList[1].id, passList[2].id} :
          /\ \E r \in performance_metrics : r.campaign_id = c /\ r.date = today
          /\ \E n \in 1..Len(NewDecisions) : NewDecisions[n].campaign_id = c
          /\ \E n \in 1..Len(NewAlerts) : NewAlerts[n].campaign_id = c

\* C28: no step of a pass and no dispatch of an action changes the campaigns
\* table, also after a budget_reallocation was dispatched with success true.
C28_CampaignsTableNeverModified ==
    [][campaigns' = campaigns]_vars

\* a pass is over that dispatched an action with success, after a
\* budget_reallocation was dispatched with success, and every campaign row is
\* what it was
C28_Witness ==
    /\ PassOver
    /\ campaigns = InitialCampaigns
    /\ \E n \in 1..Len(ai_decisions) :
          /\ ai_decisions[n].decision_type = "budget_reallocation"
          /\ ai_decisions[n].action_taken.result.success = "true"
    /\ \E n \in 1..Len(NewDecisions) : NewDecisions[n].action_taken.result.success = "true"

\* the attempts and the waits of the running call of retryWithBackoff
Attempts == {i \in Steps : trace[i].ev = "attempt"}
Sleeps == {i \in Steps : trace[i].ev = "sleep"}
RECURSIVE TwoToThe(_)
TwoToThe(k) == IF k = 0 THEN 1 ELSE 2 * TwoToThe(k - 1)

\* C29: with maxRetries >= 1, retryWithBackoff makes at most maxRetries
\* attempts, attempt k+1 only after attempt k failed and the wait after it is
\* over; it returns the value of the first attempt that succeeds and stops;
\* when maxRetries attempts failed it throws the error of the last one; it
\* waits baseDelay * 2^i after failed attempt i and not after the last one;
\* the call always ends.
C29_RetryWithBackoff ==
    /\ []( (caller = "retry" /\ retry.maxRetries >= 1) =>
             /\ Cardinality(Attempts) <= retry.maxRetries
             /\ \A i \in Attempts :
                   /\ trace[i].data = Cardinality({j \in Attempts : j < i})
                   /\ trace[i].ok => (i = Len(trace) /\ pc = "Completed")
                   /\ (~trace[i].ok /\ trace[i].data < retry.maxRetries - 1 /\ i < Len(trace)) =>
                         /\ trace[i + 1].ev = "sleep"
                         /\ trace[i + 1].data = retry.baseDelay * TwoToThe(trace[i].data)
                   /\ (~trace[i].ok /\ trace[i].data = retry.maxRetries - 1) =>
                         (i = Len(trace) /\ pc = "Completed")
             /\ \A i \in Sleeps : (i - 1) \in Attempts /\ ~trace[i - 1].ok
             /\ pc = "Completed" =>
                   /\ Attempts # {}
                   /\ LET last == CHOOSE i \in Attempts : \A j \in Attempts : j <= i IN
                      IF trace[last].ok
                      THEN retry.outcome = "returned" /\ retry.value = trace[last].data
                      ELSE /\ retry.outcome = "threw" /\ retry.value = trace[last].data
                           /\ Cardinality(Attempts) = retry.maxRetries
                           /\ Cardinality(Sleeps) = retry.maxRetries - 1 )
    /\ (caller = "retry" ~> pc = "Completed")

\* a call with maxRetries 3 and baseDelay 1000 failed three times: it waited
\* 1000 and 2000 and threw the third error
C29_Witness ==
    /\ caller = "retry" /\ pc = "Completed"
    /\ retry.maxRetries = 3 /\ retry.baseDelay = 1000
    /\ retry.outcome = "threw" /\ retry.value = 2
    /\ Len(trace) = 6
    /\ trace[3].ev = "sleep" /\ trace[3].data = 1000
    /\ trace[5].ev = "sleep" /\ trace[5].data = 2000

\* rows inserted into knowledge_versions for platform p since the check
\* started, and alerts inserted about p
NewVersionsOf(p) ==
    {n \in (trace[1].data.versions + 1)..Len(knowledge_versions) :
        knowledge_versions[n].platform = p}
NewAlertsAbout(p) ==
    {n \in (trace[1].data.alerts + 1)..Len(alerts) : alerts[n].message[2] = p}
\* a step ev of the check of source p returned / checkSource(p) ran to its end
SourceStep(p, ev) == \E i \in Steps : trace[i].ev = ev /\ trace[i].kind = p /\ trace[i].ok
SourceChecked(p) == \E i \in Steps : trace[i].ev = "checked" /\ trace[i].kind = p
\* an alert of the knowledge updater
IsBreakingAlert(row) ==
    /\ row.campaign_id = "NULL" /\ row.severity = "critical"
    /\ row.alert_type = "breaking_change_detected" /\ row.resolved = 0

\* C30: per source, in every check of a sequence of checks: with no stored
\* hash the check stores the hash and writes no version row and no alert;
\* with the stored hash equal to the content's it changes nothing; with a
\* different hash it inserts one knowledge_versions row, then stores the new
\* hash, and (its steps succeeding) inserts one critical alert with null
\* campaign id exactly when the content has breaking-change lines; the hash
\* is never replaced before the version row is in the table, and every
\* source is checked whatever failed on the sources before it.
C30_KnowledgeCheckPerSource ==
    /\ []( caller = "knowledge" =>
            /\ \A i \in Steps :
                  (trace[i].ev = "source" /\ trace[i].ok) =>
                      LET p == trace[i].kind
                          cur == trace[i].data.currentHash
                          prev == trace[i].data.previousHash
                          breaking == Len(detectBreakingChanges(trace[i].data.content)) > 0
                      IN  IF prev = NoHash
                          THEN /\ NewVersionsOf(p) = {} /\ NewAlertsAbout(p) = {}
                               /\ CONFIG[p] \in {NoHash, cur}
                               /\ SourceChecked(p) => CONFIG[p] = cur
                          ELSE IF prev = cur
                          THEN /\ NewVersionsOf(p) = {} /\ NewAlertsAbout(p) = {}
                               /\ CONFIG[p] = prev
                               /\ i < Len(trace) /\ trace[i + 1].ev = "checked"
                          ELSE /\ Cardinality(NewVersionsOf(p)) <= 1
                               /\ CONFIG[p] \in {prev, cur}
                               /\ CONFIG[p] = cur =>
                                     (Cardinality(NewVersionsOf(p)) = 1 /\ SourceStep(p, "version"))
                               /\ Cardinality(NewAlertsAbout(p)) <= 1
                               /\ NewAlertsAbout(p) # {} => (breaking /\ CONFIG[p] = cur)
                               /\ SourceChecked(p) =>
                                     /\ Cardinality(NewVersionsOf(p)) = 1
                                     /\ CONFIG[p] = cur
                                     /\ (NewAlertsAbout(p) # {}) <=> breaking
            /\ \A n \in (trace[1].data.alerts + 1)..Len(alerts) : IsBreakingAlert(alerts[n])
            /\ pc = "Completed" =>
                  \A k \in 1..Len(Sources) :
                      \E i \in Steps : trace[i].ev = "source" /\ trace[i].kind = Sources[k] )
    /\ [][ /\ Len(knowledge_versions') >= Len(knowledge_versions)
           /\ \A n \in 1..Len(knowledge_versions) : knowledge_versions'[n] = knowledge_versions[n]
           /\ \A k \in 1..Len(Sources) :
                 (CONFIG'[Sources[k]] # CONFIG[Sources[k]] /\ CONFIG[Sources[k]] # NoHash) =>
                     /\ knowledge_versions' = knowledge_versions
                     /\ NewVersionsOf(Sources[k]) # {} ]_vars

\* a check is over in which the page of meta had changed and held breaking
\* lines: one version row, the new hash and one alert; the check of ga4
\* failed and cloudflare was checked after it
C30_Witness ==
    /\ caller = "knowledge" /\ pc = "Completed"
    /\ SourceChecked("meta")
    /\ Cardinality(NewVersionsOf("meta")) = 1
    /\ Cardinality(NewAlertsAbout("meta")) = 1
    /\ CONFIG["meta"] = hashContent(PageD)
    /\ \E i \in Steps : trace[i].ev = "caught" /\ trace[i].kind = "ga4"
    /\ SourceChecked("cloudflare")

====
